---------------------------- MODULE Spec2Model ----------------------------
(***************************************************************************)
(* Model of the Digital Genome core (src/src/digital_genome_core.py), the  *)
(* motor orchestrator (src/src/cognitive_core.py) and the CP formula       *)
(* (src/src/validation/metrics/craft_performance.py).                      *)
(*                                                                         *)
(* The module holds several specifications over one set of variables; each *)
(* one drives a part of the program and leaves the other variables alone:  *)
(*   SpecOrch  - the four motors' verdicts and ParallelMotorOrchestrator   *)
(*   SpecExec  - ComputationalRibosome.execute_plan on a translated plan   *)
(*   SpecGene  - one OperationalGene object and its lifecycle methods      *)
(*   SpecStore - DigitalGenome.insert_gene and its indices                 *)
(*   SpecRibo  - a genome, its genes and the ribosome's translation cache  *)
(*                                                                         *)
(* Abstractions: time.time() stamps (created_at, modified_at, durations)   *)
(* and log output are left out; floats are exact rationals <<n, d>>.       *)
(***************************************************************************)
EXTENDS Integers, Sequences, FiniteSets, TLC

VARIABLES
    factors,            \* SpecOrch: the factor values the motors' helpers yield
    evaluations,        \* SpecOrch: the evaluations dict of the last evaluate_gene
    cp_result,          \* SpecOrch: the last CraftPerformanceResult
    cp_calc,            \* SpecOrch: the last CPResult of calculate_cp
    plan,               \* SpecExec: the ExecutionPlan object being executed
    exec_result,        \* SpecExec: the dict returned by the last execute_plan
    gene,               \* SpecGene: the OperationalGene object
    genes,              \* SpecStore/SpecRibo: DigitalGenome.genes
    stems,              \* SpecStore/SpecRibo: DigitalGenome.stems
    chromosomes,        \* SpecStore/SpecRibo: DigitalGenome.chromosomes
    evolution_history,  \* SpecStore/SpecRibo: DigitalGenome.evolution_history
    translation_cache,  \* SpecRibo: ComputationalRibosome.translation_cache
    last_translation,   \* SpecRibo (history): per gene, the plan its latest
                        \* translate_gene call returned, forgotten when the
                        \* gene is changed or its cache entry invalidated
    translators,        \* SpecConc: per concurrent caller of translate_gene,
                        \* its position in the method and its locals
    invalidated,        \* SpecConc (history): invalidate_cache has completed
                        \* since the last change of a gene
    situation,          \* SpecMotor: the gene, context and intent evaluated
    motor_history,      \* SpecMotor: per motor, its evaluation_history
    genomes,            \* SpecAlias: the DigitalGenome objects, by name
    heap,               \* SpecAlias: the lists and dicts they refer to
    call                \* the last call made: its operation, arguments, outcome

vars == <<factors, evaluations, cp_result, cp_calc, plan, exec_result, gene,
          genes, stems, chromosomes, evolution_history, translation_cache,
          last_translation, translators, invalidated, situation,
          motor_history, genomes, heap, call>>

orchVars  == <<factors, evaluations, cp_result, cp_calc>>
execVars  == <<plan, exec_result>>
storeVars == <<genes, stems, chromosomes, evolution_history>>
concVars  == <<translators, invalidated>>
motorVars == <<situation, motor_history>>
aliasVars == <<genomes, heap>>

\* Python's None
None == "None"

\* an optional value: <<>> when absent, <<x>> when present
Absent == <<>>
Some(x) == <<x>>
Get(o) == o[1]

\* Python's {}
EmptyDict == [k \in {} |-> None]

NoCall == [op |-> "none"]

-----------------------------------------------------------------------------
(* Exact rationals <<numerator, denominator>>, kept in lowest terms.       *)

RECURSIVE GCD(_, _)
GCD(a, b) == IF b = 0 THEN a ELSE GCD(b, a % b)

R(n, d) == LET g == GCD(n, d) IN <<n \div g, d \div g>>

Zero == <<0, 1>>
One  == <<1, 1>>

\* the product, cancelling across before multiplying
RMul(x, y) ==
    LET a == R(x[1], y[2])
        b == R(y[1], x[2])
    IN  <<a[1] * b[1], a[2] * b[2]>>
RLt(x, y)  == x[1] * y[2] < y[1] * x[2]
RLe(x, y)  == x[1] * y[2] <= y[1] * x[2]

\* the 0.1 threshold of every motor's veto conditions
VetoThreshold == R(1, 10)

-----------------------------------------------------------------------------
(* MotorEvaluation and the four motors' evaluate(), from the factor values  *)
(* to the evaluation (score, is_veto, veto_reason).                         *)

MotorEvaluation(name, score, is_veto, veto_reason) ==
    [motor_name |-> name, score |-> score, is_veto |-> is_veto,
     veto_reason |-> veto_reason]

is_absolute_veto(evaluation) ==
    evaluation.score = Zero \/ evaluation.is_veto

\* an evaluate without the veto on logical coherence
PraxeologicalEvaluateNoCoherenceVeto(intent_alignment, precondition_satisfaction, logical_coherence) ==
    LET score == RMul(RMul(intent_alignment, precondition_satisfaction), logical_coherence)
    IN  IF RLt(intent_alignment, VetoThreshold)
        THEN MotorEvaluation("Praxeological", Zero, TRUE, "Action contradicts stated intention")
        ELSE IF precondition_satisfaction = Zero
        THEN MotorEvaluation("Praxeological", Zero, TRUE, "Preconditions cannot be satisfied")
        ELSE MotorEvaluation("Praxeological", score, FALSE, None)

PraxeologicalEvaluate(intent_alignment, precondition_satisfaction, logical_coherence) ==
    LET score == RMul(RMul(intent_alignment, precondition_satisfaction), logical_coherence)
    IN  IF RLt(intent_alignment, VetoThreshold)
        THEN MotorEvaluation("Praxeological", Zero, TRUE, "Action contradicts stated intention")
        ELSE IF RLt(logical_coherence, VetoThreshold)
        THEN MotorEvaluation("Praxeological", Zero, TRUE, "Action cannot logically achieve its goal")
        ELSE IF precondition_satisfaction = Zero
        THEN MotorEvaluation("Praxeological", Zero, TRUE, "Preconditions cannot be satisfied")
        ELSE MotorEvaluation("Praxeological", score, FALSE, None)

NashEvaluate(equilibrium_proximity, stability, coherence, n_agents) ==
    LET score == RMul(RMul(equilibrium_proximity, stability), coherence)
    IN  IF RLt(stability, VetoThreshold)
        THEN MotorEvaluation("Nash", Zero, TRUE, "Action creates destructive feedback loops")
        ELSE IF n_agents > 1 /\ RLt(equilibrium_proximity, VetoThreshold)
        THEN MotorEvaluation("Nash", Zero, TRUE, "No stable equilibrium exists")
        ELSE MotorEvaluation("Nash", score, FALSE, None)

ChaoticEvaluate(sensitivity_factor, basin_size, perturbation_tolerance, catastrophic) ==
    LET score == RMul(RMul(sensitivity_factor, basin_size), perturbation_tolerance)
    IN  IF catastrophic
        THEN MotorEvaluation("Chaotic", Zero, TRUE, "Failure mode includes irreversible catastrophe")
        ELSE IF RLt(sensitivity_factor, VetoThreshold)
        THEN MotorEvaluation("Chaotic", Zero, TRUE, "Extreme sensitivity to initial conditions")
        ELSE IF RLt(basin_size, VetoThreshold)
        THEN MotorEvaluation("Chaotic", Zero, TRUE, "Basin of attraction too small for real-world noise")
        ELSE MotorEvaluation("Chaotic", score, FALSE, None)

MeristicEvaluate(pattern_score, scale_score, potential_score) ==
    LET score == RMul(RMul(pattern_score, scale_score), potential_score)
    IN  IF RLt(pattern_score, VetoThreshold)
        THEN MotorEvaluation("Meristic", Zero, TRUE, "Action violates fundamental patterns")
        ELSE MotorEvaluation("Meristic", score, FALSE, None)

-----------------------------------------------------------------------------
(* ParallelMotorOrchestrator.evaluate_gene: the aggregation loop over the   *)
(* evaluations dict, which iterates in insertion order.                     *)

MotorOrder == <<"Praxeological", "Nash", "Chaotic", "Meristic">>

\* the locals before the loop: craft_performance = 1.0, is_vetoed = False, ...
AggregateStart ==
    [craft_performance |-> One, is_vetoed |-> FALSE,
     veto_motor |-> None, veto_reason |-> None]

\* a loop body that lets a later veto overwrite an earlier one
AggregateStepLastVeto(acc, name, evaluation) ==
    IF is_absolute_veto(evaluation)
    THEN [craft_performance |-> Zero, is_vetoed |-> TRUE,
          veto_motor |-> name, veto_reason |-> evaluation.veto_reason]
    ELSE [acc EXCEPT !.craft_performance = RMul(acc.craft_performance, evaluation.score)]

\* a loop body that leaves the Chaotic score out of the product
AggregateStepSkipsChaotic(acc, name, evaluation) ==
    LET cp == IF name = "Chaotic" THEN acc.craft_performance
              ELSE RMul(acc.craft_performance, evaluation.score)
    IN  IF is_absolute_veto(evaluation) /\ ~acc.is_vetoed
        THEN [craft_performance |-> Zero, is_vetoed |-> TRUE,
              veto_motor |-> name, veto_reason |-> evaluation.veto_reason]
        ELSE [acc EXCEPT !.craft_performance = cp]

\* a loop body that takes is_veto alone as the veto test
AggregateStepFlagOnly(acc, name, evaluation) ==
    IF evaluation.is_veto /\ ~acc.is_vetoed
    THEN [craft_performance |-> Zero, is_vetoed |-> TRUE,
          veto_motor |-> name, veto_reason |-> evaluation.veto_reason]
    ELSE [acc EXCEPT !.craft_performance = RMul(acc.craft_performance, evaluation.score)]

\* one iteration of `for name, evaluation in evaluations.items()`
AggregateStep(acc, name, evaluation) ==
    LET cp == RMul(acc.craft_performance, evaluation.score)
    IN  IF is_absolute_veto(evaluation) /\ ~acc.is_vetoed
        THEN [craft_performance |-> Zero, is_vetoed |-> TRUE,
              veto_motor |-> name, veto_reason |-> evaluation.veto_reason]
        ELSE [acc EXCEPT !.craft_performance = cp]

RECURSIVE AggregateLoop(_, _, _)
AggregateLoop(evals, i, acc) ==
    IF i > Len(MotorOrder) THEN acc
    ELSE AggregateLoop(evals, i + 1, AggregateStep(acc, MotorOrder[i], evals[MotorOrder[i]]))

\* the four motor calls of evaluate_gene, on the factor values of the gene,
\* context and intent at hand
RunMotors(f) ==
    [m \in {MotorOrder[i] : i \in 1..Len(MotorOrder)} |->
        CASE m = "Praxeological" ->
                 PraxeologicalEvaluate(f.intent_alignment, f.precondition_satisfaction,
                                       f.logical_coherence)
          [] m = "Nash" ->
                 NashEvaluate(f.equilibrium_proximity, f.stability,
                              f.multi_agent_coherence, f.n_agents)
          [] m = "Chaotic" ->
                 ChaoticEvaluate(f.sensitivity_factor, f.basin_size,
                                 f.perturbation_tolerance, f.catastrophic)
          [] OTHER ->
                 MeristicEvaluate(f.pattern_universality, f.scale_coherence,
                                  f.proximity_to_form)]

\* the CraftPerformanceResult built from the evaluations
CraftPerformanceResult(evals) ==
    LET acc == AggregateLoop(evals, 1, AggregateStart)
    IN  [evaluations |-> evals,
         craft_performance |-> acc.craft_performance,
         is_vetoed |-> acc.is_vetoed,
         veto_motor |-> acc.veto_motor,
         veto_reason |-> acc.veto_reason]

-----------------------------------------------------------------------------
(* calculate_cp of the validation metrics: CP = M_P x M_C x M_N x M_M.      *)

CpScoreOrder == <<"praxeological", "chaotic", "nash", "meristic">>

RECURSIVE FirstVeto(_, _)
FirstVeto(scores, i) ==
    IF i > Len(CpScoreOrder) THEN None
    ELSE IF RLe(scores[CpScoreOrder[i]], Zero) THEN CpScoreOrder[i]
    ELSE FirstVeto(scores, i + 1)

calculate_cp(m_p, m_c, m_n, m_m) ==
    LET scores == [praxeological |-> m_p, chaotic |-> m_c, nash |-> m_n, meristic |-> m_m]
        veto   == FirstVeto(scores, 1)
    IN  IF \E k \in DOMAIN scores : ~(RLe(Zero, scores[k]) /\ RLe(scores[k], One))
        THEN [raised |-> TRUE]
        ELSE [raised |-> FALSE,
              craft_performance |-> RMul(RMul(RMul(m_p, m_c), m_n), m_m),
              is_vetoed |-> veto # None, veto_motor |-> veto]

-----------------------------------------------------------------------------
(* SpecOrch: one gene/context/intent, given by the factor values the        *)
(* motors' helper methods compute for it, is evaluated by the orchestrator. *)

\* factor values a veto condition is tested on: below 0.1, and above it
ThresholdGrid == {R(1, 16), R(1, 2), One}
ThresholdGrid2 == {R(1, 16), R(1, 2)}
\* precondition_satisfaction is tested for == 0
SatisfactionGrid == {Zero, R(1, 2)}
\* factors no veto condition reads
FreeGrid == {Zero, R(1, 2)}

FactorInputs ==
    [intent_alignment : ThresholdGrid,
     precondition_satisfaction : SatisfactionGrid,
     logical_coherence : ThresholdGrid2,
     equilibrium_proximity : ThresholdGrid2,
     stability : ThresholdGrid,
     multi_agent_coherence : FreeGrid,
     n_agents : {1, 2},
     sensitivity_factor : ThresholdGrid2,
     basin_size : ThresholdGrid,
     perturbation_tolerance : FreeGrid,
     catastrophic : BOOLEAN,
     pattern_universality : ThresholdGrid,
     scale_coherence : FreeGrid,
     proximity_to_form : {R(1, 2), One}]

OtherInitOrch ==
    /\ plan = Absent /\ exec_result = Absent /\ gene = Absent
    /\ genes = EmptyDict /\ stems = EmptyDict /\ chromosomes = EmptyDict
    /\ evolution_history = <<>> /\ translation_cache = EmptyDict
    /\ last_translation = EmptyDict /\ genomes = EmptyDict /\ heap = <<>>
    /\ translators = EmptyDict /\ invalidated = TRUE
    /\ situation = Absent /\ motor_history = EmptyDict
    /\ call = NoCall

InitOrch ==
    /\ factors \in FactorInputs
    /\ evaluations = EmptyDict
    /\ cp_result = Absent
    /\ cp_calc = Absent
    /\ OtherInitOrch

EvaluateGene ==
    LET evals == RunMotors(factors)
    IN  /\ evaluations' = evals
        /\ cp_result' = Some(CraftPerformanceResult(evals))
        /\ UNCHANGED <<factors, cp_calc, execVars, gene, storeVars, translation_cache, last_translation, concVars, motorVars, aliasVars, call>>

\* the validation metrics recompute CP from the motor scores of an evaluation
CalculateCp ==
    /\ DOMAIN evaluations # {}
    /\ cp_calc' = Some(calculate_cp(evaluations["Praxeological"].score,
                               evaluations["Chaotic"].score,
                               evaluations["Nash"].score,
                               evaluations["Meristic"].score))
    /\ UNCHANGED <<factors, evaluations, cp_result, execVars, gene, storeVars,
                   translation_cache, last_translation, concVars, motorVars, aliasVars, call>>

NextOrch == EvaluateGene \/ CalculateCp

SpecOrch == InitOrch /\ [][NextOrch]_vars

-----------------------------------------------------------------------------
(* Properties of the orchestrator (SpecOrch).                               *)

Motors == {MotorOrder[i] : i \in 1..Len(MotorOrder)}

\* the product of four rationals, multiplied out in one step
Product4(a, b, c, d) == R(a[1] * b[1] * c[1] * d[1], a[2] * b[2] * c[2] * d[2])

\* the motors whose evaluation is a veto: is_veto, or a score of zero
Vetoers(evals) == {m \in Motors : evals[m].is_veto \/ evals[m].score = Zero}

\* the fixed priority: intention > equilibrium > robustness > pattern
VetoPriority == [Praxeological |-> 1, Nash |-> 2, Chaotic |-> 3, Meristic |-> 4]

HighestVetoer(evals) ==
    CHOOSE m \in Vetoers(evals) :
        \A n \in Vetoers(evals) : VetoPriority[m] <= VetoPriority[n]

\* C2: whenever at least one of the four evaluators reports is_veto or a
\* score of zero, evaluate_gene returns craft_performance exactly 0 and
\* is_vetoed = true, whatever the other scores and whichever motor it is.
C2_VetoForcesZero ==
    cp_result # Absent =>
        LET r == Get(cp_result)
        IN  Vetoers(r.evaluations) # {} =>
                r.craft_performance = Zero /\ r.is_vetoed

\* C2's case: only the last motor in the order vetoes, by a zero score that
\* carries no is_veto flag, and the other three scores are not zero.
C2_Witness ==
    /\ cp_result # Absent
    /\ LET r == Get(cp_result)
       IN  /\ Vetoers(r.evaluations) = {"Meristic"}
           /\ ~r.evaluations["Meristic"].is_veto
           /\ r.craft_performance = Zero
           /\ r.is_vetoed

\* C3: the aggregate is the product of exactly the four scores: evaluate_gene's
\* craft_performance equals Praxeological x Nash x Chaotic x Meristic of the
\* returned evaluations, and calculate_cp(m_p, m_c, m_n, m_m) returns
\* m_p x m_c x m_n x m_m without raising, for scores in [0, 1].
C3_ProductLaw ==
    /\ cp_result # Absent =>
           LET r == Get(cp_result)
               e == r.evaluations
           IN  r.craft_performance =
                   Product4(e["Praxeological"].score, e["Nash"].score,
                            e["Chaotic"].score, e["Meristic"].score)
    /\ cp_calc # Absent =>
           LET c == Get(cp_calc)
           IN  /\ ~c.raised
               /\ c.craft_performance =
                      Product4(evaluations["Praxeological"].score,
                               evaluations["Chaotic"].score,
                               evaluations["Nash"].score,
                               evaluations["Meristic"].score)

\* C3's case: four scores strictly between 0 and 1, aggregated both ways.
C3_Witness ==
    /\ cp_result # Absent
    /\ cp_calc # Absent
    /\ \A m \in Motors : LET x == evaluations[m].score IN RLt(Zero, x) /\ RLt(x, One)
    /\ Get(cp_result).craft_performance = Get(cp_calc).craft_performance
    /\ Get(cp_result).craft_performance # Zero

\* C8: when several evaluators veto at once, veto_motor and veto_reason are
\* those of the vetoing evaluator highest in the order Praxeological > Nash >
\* Chaotic > Meristic, for every subset of vetoing evaluators.
C8_VetoPriorityOrder ==
    cp_result # Absent =>
        LET r == Get(cp_result)
        IN  IF Vetoers(r.evaluations) = {}
            THEN r.veto_motor = None /\ ~r.is_vetoed
            ELSE /\ r.veto_motor = HighestVetoer(r.evaluations)
                 /\ r.veto_reason = r.evaluations[HighestVetoer(r.evaluations)].veto_reason

\* C8's case: Nash, Chaotic and Meristic veto together, with different
\* reasons, and Nash is the one recorded.
C8_Witness ==
    /\ cp_result # Absent
    /\ LET r == Get(cp_result)
       IN  /\ Vetoers(r.evaluations) = {"Nash", "Chaotic", "Meristic"}
           /\ \A m \in Vetoers(r.evaluations) : r.evaluations[m].is_veto
           /\ r.veto_motor = "Nash"
           /\ r.veto_reason = "No stable equilibrium exists"

-----------------------------------------------------------------------------
(* PraxeologicalCodon, OperationalGene, ExecutionStep, ExecutionPlan.        *)

Codon(entity_id, action_id, target_state_id, safety_level) ==
    [entity_id |-> entity_id, action_id |-> action_id,
     target_state_id |-> target_state_id, safety_level |-> safety_level]

InfoCodon     == Codon("valve-302", "inspect", "inspected", "info")
WarningCodon  == Codon("valve-302", "close", "closed", "warning")
CriticalCodon == Codon("pump-401", "stop", "stopped", "critical")

\* the codons the model builds genes from, one per SafetyLevel
Codons == {InfoCodon, WarningCodon, CriticalCodon}

\* the longest codon sequence of a gene
MaxCodons == 2

RECURSIVE SeqsUpTo(_, _)
SeqsUpTo(S, n) ==
    IF n = 0 THEN {<<>>}
    ELSE LET shorter == SeqsUpTo(S, n - 1)
         IN  shorter \cup {Append(q, x) : q \in {t \in shorter : Len(t) = n - 1}, x \in S}

OperationalGene(uid, name, status, codons, metadata) ==
    [uid |-> uid, name |-> name, status |-> status, codons |-> codons,
     metadata |-> metadata]

\* OperationalGene.safety_level: the highest level among the codons
GeneSafetyLevel(g) ==
    LET levels == {g.codons[i].safety_level : i \in 1..Len(g.codons)}
    IN  IF "critical" \in levels THEN "critical"
        ELSE IF "warning" \in levels THEN "warning"
        ELSE "info"

\* a step list in reverse codon order
BuildStepsReversed(codons) ==
    [i \in 1..Len(codons) |->
        [order |-> i, codon |-> codons[Len(codons) + 1 - i], status |-> "success",
         error |-> None]]

\* translate_gene's loop: one ExecutionStep per codon, order = i + 1
BuildSteps(codons) ==
    [i \in 1..Len(codons) |->
        [order |-> i, codon |-> codons[i], status |-> "success", error |-> None]]

\* the ExecutionPlan translate_gene creates for a gene
BuildPlan(g) ==
    LET steps == BuildSteps(g.codons)
    IN  [gene_uid |-> g.uid, gene_name |-> g.name, steps |-> steps,
         total_steps |-> Len(steps), safety_level |-> GeneSafetyLevel(g)]

-----------------------------------------------------------------------------
(* ComputationalRibosome.execute_plan.  The precondition check and the      *)
(* codon execution are collaborators: each step's outcome is an input.      *)

\* what _check_preconditions does (returns True or False, or raises) and,
\* when it is called, what _execute_codon does (returns, or raises)
Outcomes ==
    {[pre |-> "true", act |-> "ok"], [pre |-> "true", act |-> "raise"],
     [pre |-> "false", act |-> "ok"], [pre |-> "raise", act |-> "ok"]}

RaisedMessage == "collaborator raised"

\* the try/except of one iteration: the step as it is left
RunStep(step, outcome, dry_run) ==
    IF outcome.pre = "raise"
    THEN [step EXCEPT !.status = "failure", !.error = RaisedMessage]
    ELSE IF outcome.pre = "false"
    THEN [step EXCEPT !.status = "aborted", !.error = "Preconditions not met"]
    ELSE IF ~dry_run /\ outcome.act = "raise"
    THEN [step EXCEPT !.status = "failure", !.error = RaisedMessage]
    ELSE [step EXCEPT !.status = "success"]

StepResult(step) ==
    [order |-> step.order, status |-> step.status, error |-> step.error]

\* the result dict before the loop
ExecStart(p, dry_run) ==
    [gene_uid |-> p.gene_uid, dry_run |-> dry_run,
     steps_executed |-> 0, steps_successful |-> 0, steps_failed |-> 0,
     step_results |-> <<>>, overall_status |-> "success"]

\* a step loop without the break on a critical failure
RECURSIVE ExecLoopNoBreak(_, _, _, _, _)
ExecLoopNoBreak(steps, i, outcomes, dry_run, result) ==
    IF i > Len(steps) THEN [steps |-> steps, result |-> result]
    ELSE LET step == RunStep(steps[i], outcomes[i], dry_run)
             ok   == step.status = "success"
             counted ==
                 [result EXCEPT
                     !.steps_successful = IF ok THEN @ + 1 ELSE @,
                     !.steps_failed = IF ok THEN @ ELSE @ + 1,
                     !.steps_executed = @ + 1,
                     !.step_results = Append(@, StepResult(step))]
         IN  ExecLoopNoBreak([steps EXCEPT ![i] = step], i + 1, outcomes, dry_run,
                             counted)

\* a step loop that counts a step as failed only in the except branch
RECURSIVE ExecLoopAbortedUncounted(_, _, _, _, _)
ExecLoopAbortedUncounted(steps, i, outcomes, dry_run, result) ==
    IF i > Len(steps) THEN [steps |-> steps, result |-> result]
    ELSE LET step == RunStep(steps[i], outcomes[i], dry_run)
             counted ==
                 [result EXCEPT
                     !.steps_successful = IF step.status = "success" THEN @ + 1 ELSE @,
                     !.steps_failed = IF step.status = "failure" THEN @ + 1 ELSE @,
                     !.steps_executed = @ + 1,
                     !.step_results = Append(@, StepResult(step))]
             steps2 == [steps EXCEPT ![i] = step]
         IN  IF step.status = "failure" /\ step.codon.safety_level = "critical"
             THEN [steps |-> steps2,
                   result |-> [counted EXCEPT !.overall_status = "aborted"]]
             ELSE ExecLoopAbortedUncounted(steps2, i + 1, outcomes, dry_run, counted)

\* `for step in plan.steps`, from step i on: the steps and the result dict
RECURSIVE ExecLoop(_, _, _, _, _)
ExecLoop(steps, i, outcomes, dry_run, result) ==
    IF i > Len(steps) THEN [steps |-> steps, result |-> result]
    ELSE LET step == RunStep(steps[i], outcomes[i], dry_run)
             ok   == step.status = "success"
             counted ==
                 [result EXCEPT
                     !.steps_successful = IF ok THEN @ + 1 ELSE @,
                     !.steps_failed = IF ok THEN @ ELSE @ + 1,
                     !.steps_executed = @ + 1,
                     !.step_results = Append(@, StepResult(step))]
             steps2 == [steps EXCEPT ![i] = step]
         IN  IF step.status = "failure" /\ step.codon.safety_level = "critical"
             THEN [steps |-> steps2,
                   result |-> [counted EXCEPT !.overall_status = "aborted"]]
             ELSE ExecLoop(steps2, i + 1, outcomes, dry_run, counted)

\* "Determine overall status", after the loop
OverallStatus(result) ==
    IF result.steps_failed > 0
    THEN IF result.steps_successful > 0 THEN "partial" ELSE "failure"
    ELSE result.overall_status

\* execute_plan: the plan object as it is left, and the returned dict
execute_plan(p, outcomes, dry_run) ==
    LET done == ExecLoop(p.steps, 1, outcomes, dry_run, ExecStart(p, dry_run))
    IN  [plan |-> [p EXCEPT !.steps = done.steps],
         result |-> [done.result EXCEPT !.overall_status = OverallStatus(done.result)]]

-----------------------------------------------------------------------------
(* SpecExec: a plan translated from an active gene is executed, any number  *)
(* of times, with any outcomes of the collaborators.                        *)

OtherInitExec ==
    /\ factors = EmptyDict /\ evaluations = EmptyDict
    /\ cp_result = Absent /\ cp_calc = Absent
    /\ gene = Absent
    /\ genes = EmptyDict /\ stems = EmptyDict /\ chromosomes = EmptyDict
    /\ evolution_history = <<>> /\ translation_cache = EmptyDict
    /\ last_translation = EmptyDict /\ genomes = EmptyDict /\ heap = <<>>
    /\ translators = EmptyDict /\ invalidated = TRUE
    /\ situation = Absent /\ motor_history = EmptyDict
    /\ call = NoCall

InitExec ==
    /\ \E codons \in SeqsUpTo(Codons, MaxCodons) :
           plan = Some(BuildPlan(OperationalGene("gene-1", "Emergency Shutdown",
                                                 "active", codons, EmptyDict)))
    /\ exec_result = Absent
    /\ OtherInitExec

ExecutePlan ==
    \E dry_run \in BOOLEAN :
      \E outcomes \in [1..Len(Get(plan).steps) -> Outcomes] :
        LET done == execute_plan(Get(plan), outcomes, dry_run)
        IN  /\ plan' = Some(done.plan)
            /\ exec_result' = Some(done.result)
            /\ call' = [op |-> "execute_plan", outcomes |-> outcomes,
                        dry_run |-> dry_run]
            /\ UNCHANGED <<orchVars, gene, storeVars, translation_cache, last_translation, concVars, motorVars, aliasVars>>

NextExec == ExecutePlan

SpecExec == InitExec /\ [][NextExec]_vars

\* a critical-tier step of the last execution ended in FAILURE
CriticalStepFailed ==
    \E i \in 1..Len(Get(exec_result).step_results) :
        /\ Get(exec_result).step_results[i].status = "failure"
        /\ Get(plan).steps[i].codon.safety_level = "critical"

\* C1: execute_plan reports SUCCESS when all executed steps succeeded,
\* PARTIAL when some succeeded and some failed, FAILURE when all failed, and
\* ABORTED whenever a critical-tier step ended in FAILURE, ABORTED overriding
\* PARTIAL and FAILURE.
C1_StatusLattice ==
    exec_result # Absent =>
        LET r == Get(exec_result)
        IN  r.overall_status =
                IF CriticalStepFailed THEN "aborted"
                ELSE IF r.steps_failed = 0 THEN "success"
                ELSE IF r.steps_successful > 0 THEN "partial"
                ELSE "failure"

\* what the try/except of a step leaves as its status, given what the
\* collaborators did
StatusFor(outcome, dry_run) ==
    IF outcome.pre = "raise" THEN "failure"
    ELSE IF outcome.pre = "false" THEN "aborted"
    ELSE IF ~dry_run /\ outcome.act = "raise" THEN "failure"
    ELSE "success"

\* the steps of the last execution that failed on a critical-tier codon
CriticalFailures ==
    {i \in 1..Len(Get(plan).steps) :
        /\ i <= Len(Get(exec_result).step_results)
        /\ Get(exec_result).step_results[i].status = "failure"
        /\ Get(plan).steps[i].codon.safety_level = "critical"}

\* C11: execute_plan stops right after a step that failed on a critical-tier
\* codon (no later step is executed or appears in step_results); after a
\* failed or aborted step of another tier it records the failure on the step
\* and goes on, so steps_executed is the plan's step count unless a
\* critical-tier step failed; every call returns its result dict, whatever
\* the collaborators raise.
C11_CriticalShortCircuit ==
    call.op = "execute_plan" =>
        /\ exec_result # Absent
        /\ LET r == Get(exec_result)
               steps == Get(plan).steps
               n == Len(r.step_results)
           IN  /\ r.steps_executed = n
               /\ n <= Len(steps)
               /\ \A i \in 1..n :
                      /\ r.step_results[i].status = StatusFor(call.outcomes[i], call.dry_run)
                      /\ steps[i].status = r.step_results[i].status
                      /\ r.step_results[i].status # "success" =>
                             /\ steps[i].error # None
                             /\ r.step_results[i].error = steps[i].error
               /\ IF CriticalFailures = {}
                  THEN n = Get(plan).total_steps
                  ELSE CriticalFailures = {n}

\* C11's case: the first step of a two-step plan failed on a critical-tier
\* codon and the second step was not executed.
C11_Witness ==
    /\ call.op = "execute_plan"
    /\ Get(plan).total_steps = 2
    /\ Get(exec_result).steps_executed = 1
    /\ CriticalFailures = {1}
    /\ Len(Get(exec_result).step_results) = 1

\* C12: every execution step follows pending -> {success | aborted |
\* failure}: it changes status at most once, and once an execution has
\* decided it no later operation, executing the same plan again included,
\* changes its status.  (A step no execution has reached counts as pending
\* here, whatever its status field holds.)
C12_StepStatusTerminal ==
    [][(exec_result # Absent /\ call'.op = "execute_plan") =>
          \A i \in 1..Len(Get(exec_result).step_results) :
              Get(plan').steps[i].status = Get(plan).steps[i].status]_vars

-----------------------------------------------------------------------------
(* OperationalGene: create, from_dict, add_codon, activate, deprecate.      *)

\* GeneStatus
GeneStatuses == {"draft", "active", "deprecated", "archived"}

\* d[k] = v on a Python dict
DictSet(d, k, v) == [x \in DOMAIN d \cup {k} |-> IF x = k THEN v ELSE d[x]]

\* OperationalGene.create: a draft gene without codons
create(uid, name, executor, action, target) ==
    OperationalGene(uid, name, "draft", <<>>,
                    [executor |-> executor, action |-> action, target |-> target])

\* OperationalGene.from_dict: the fields are taken from the document as given
from_dict(data) ==
    OperationalGene(data.uid, data.name, data.status, data.codons, data.metadata)

\* OperationalGene.to_dict
to_dict(g) ==
    [uid |-> g.uid, name |-> g.name, status |-> g.status, codons |-> g.codons,
     metadata |-> g.metadata]

add_codon(g, codon) == [g EXCEPT !.codons = Append(@, codon)]

\* OperationalGene.activate: raises ValueError on a gene without codons
activate(g) ==
    IF Len(g.codons) < 1
    THEN [raised |-> TRUE, gene |-> g]
    ELSE [raised |-> FALSE, gene |-> [g EXCEPT !.status = "active"]]

\* OperationalGene.deprecate
deprecate(g, reason) ==
    [g EXCEPT !.status = "deprecated",
              !.metadata = DictSet(@, "deprecation_reason", reason)]

-----------------------------------------------------------------------------
(* SpecGene: one gene object, made by create or from_dict, then driven by   *)
(* add_codon, activate and deprecate in any order.                          *)

\* the documents from_dict is given
GeneDocuments ==
    [uid : {"gene-1"}, name : {"Emergency Shutdown"}, status : GeneStatuses,
     codons : SeqsUpTo(Codons, MaxCodons),
     metadata : {EmptyDict, [executor |-> "operator"]}]

DeprecationReasons == {"", "superseded"}

OtherInitGene ==
    /\ factors = EmptyDict /\ evaluations = EmptyDict
    /\ cp_result = Absent /\ cp_calc = Absent
    /\ plan = Absent /\ exec_result = Absent
    /\ genes = EmptyDict /\ stems = EmptyDict /\ chromosomes = EmptyDict
    /\ evolution_history = <<>> /\ translation_cache = EmptyDict
    /\ last_translation = EmptyDict /\ genomes = EmptyDict /\ heap = <<>>
    /\ translators = EmptyDict /\ invalidated = TRUE
    /\ situation = Absent /\ motor_history = EmptyDict

InitGene ==
    /\ gene = Absent
    /\ call = NoCall
    /\ OtherInitGene

GeneFrame == UNCHANGED <<orchVars, execVars, storeVars, translation_cache, last_translation, concVars, motorVars, aliasVars>>

CreateGene ==
    /\ gene' = Some(create("gene-1", "Emergency Shutdown", "operator", "stop", "pump-401"))
    /\ call' = [op |-> "create", raised |-> FALSE]
    /\ GeneFrame

LoadGene ==
    \E data \in GeneDocuments :
        /\ gene' = Some(from_dict(data))
        /\ call' = [op |-> "from_dict", raised |-> FALSE]
        /\ GeneFrame

AddCodon ==
    /\ gene # Absent
    /\ Len(Get(gene).codons) < MaxCodons
    /\ \E codon \in Codons : gene' = Some(add_codon(Get(gene), codon))
    /\ call' = [op |-> "add_codon", raised |-> FALSE]
    /\ GeneFrame

Activate ==
    /\ gene # Absent
    /\ LET done == activate(Get(gene))
       IN  /\ gene' = Some(done.gene)
           /\ call' = [op |-> "activate", raised |-> done.raised,
                       status_before |-> Get(gene).status]
    /\ GeneFrame

Deprecate ==
    /\ gene # Absent
    /\ \E reason \in DeprecationReasons : gene' = Some(deprecate(Get(gene), reason))
    /\ call' = [op |-> "deprecate", raised |-> FALSE]
    /\ GeneFrame

NextGene == CreateGene \/ LoadGene \/ AddCodon \/ Activate \/ Deprecate

SpecGene == InitGene /\ [][NextGene]_vars

\* the lifecycle: draft -> active -> {deprecated, archived}
LifecycleMoves ==
    {<<"draft", "active">>, <<"active", "deprecated">>, <<"active", "archived">>}

\* C9: a template's status only ever moves along draft -> active ->
\* {deprecated, archived}: no activate() or deprecate() makes another
\* transition, archived is terminal, and no operation changes a
\* lifecycle-sensitive field of an archived template.
C9_LifecycleMachine ==
    [][(gene # Absent /\ call'.op \in {"add_codon", "activate", "deprecate"}) =>
          LET before == Get(gene)
              after  == Get(gene')
          IN  /\ before.status = after.status
                 \/ <<before.status, after.status>> \in LifecycleMoves
              /\ before.status = "archived" => after = before]_vars

\* C10: in every reachable state of a template (made by create or from_dict,
\* then driven by add_codon, activate and deprecate), status ACTIVE implies
\* at least one atomic unit; activate() on a template with zero units raises
\* and leaves the status unchanged.
C10_ActiveHasUnits ==
    gene # Absent =>
        /\ Get(gene).status = "active" => Len(Get(gene).codons) >= 1
        /\ (call.op = "activate" /\ Len(Get(gene).codons) = 0) =>
               call.raised /\ Get(gene).status = call.status_before

-----------------------------------------------------------------------------
(* DigitalGenome: the gene table, the stem and chromosome indices and the   *)
(* evolution history.                                                       *)

\* defaultdict(list)[key].append(x)
DictAppend(d, key, x) ==
    DictSet(d, key, Append(IF key \in DOMAIN d THEN d[key] ELSE <<>>, x))

\* DigitalGenome.insert_gene on the store <<genes, stems, chromosomes, history>>
insert_gene(store, g, stem, chromosome) ==
    [genes |-> DictSet(store.genes, g.uid, g),
     stems |-> DictAppend(store.stems, stem, g.uid),
     chromosomes |-> DictAppend(store.chromosomes, chromosome, g.uid),
     evolution_history |->
         Append(store.evolution_history,
                [event_type |-> "insertion", gene_uid |-> g.uid, gene_name |-> g.name,
                 stem |-> stem, chromosome |-> chromosome])]

\* DigitalGenome.get_gene: the gene, or None
get_gene(table, gene_uid) ==
    IF gene_uid \in DOMAIN table THEN Some(table[gene_uid]) ELSE Absent

TheStore ==
    [genes |-> genes, stems |-> stems, chromosomes |-> chromosomes,
     evolution_history |-> evolution_history]

\* the most insert_gene calls on one genome
MaxEvents == 3

-----------------------------------------------------------------------------
(* SpecStore: genes are inserted into a genome under stems and chromosomes. *)

GeneUids == {"gene-1", "gene-2"}

\* the gene objects handed to insert_gene: per uid, two objects that differ
\* in their metadata
StoreGenes ==
    {OperationalGene(uid, "Emergency Shutdown", "draft", <<>>, md) :
        uid \in GeneUids,
        md \in {[executor |-> "operator"],
                [executor |-> "controller", experience_count |-> 1]}}

StemNames == {"default", "safety"}
ChromosomeNames == {"primary", "critical_operations"}

OtherInitStore ==
    /\ factors = EmptyDict /\ evaluations = EmptyDict
    /\ cp_result = Absent /\ cp_calc = Absent
    /\ plan = Absent /\ exec_result = Absent
    /\ gene = Absent

\* DigitalGenome.__init__
InitGenome ==
    /\ genes = EmptyDict
    /\ stems = EmptyDict
    /\ chromosomes = EmptyDict
    /\ evolution_history = <<>>

InitStore ==
    /\ InitGenome
    /\ translation_cache = EmptyDict
    /\ last_translation = EmptyDict /\ genomes = EmptyDict /\ heap = <<>>
    /\ translators = EmptyDict /\ invalidated = TRUE
    /\ situation = Absent /\ motor_history = EmptyDict
    /\ call = NoCall
    /\ OtherInitStore

InsertGene ==
    /\ Len(evolution_history) < MaxEvents
    /\ \E g \in StoreGenes, stem \in StemNames, chromosome \in ChromosomeNames :
         LET after == insert_gene(TheStore, g, stem, chromosome)
         IN  /\ genes' = after.genes
             /\ stems' = after.stems
             /\ chromosomes' = after.chromosomes
             /\ evolution_history' = after.evolution_history
             /\ call' = [op |-> "insert_gene", uid |-> g.uid, gene |-> g]
    /\ UNCHANGED <<orchVars, execVars, gene, translation_cache, last_translation, concVars, motorVars, aliasVars>>

NextStore == InsertGene

SpecStore == InitStore /\ [][NextStore]_vars

\* the experience count of a gene record as its readers take it:
\* metadata.get('experience_count', 1)
ExperienceCount(g) ==
    IF "experience_count" \in DOMAIN g.metadata THEN g.metadata["experience_count"] ELSE 1

\* C4: inserting a template whose identifier is already present is a
\* recognition event: the table keeps exactly one record for the identifier,
\* the existing record's experience counter goes up by one, the incoming
\* metadata is merged into the existing record (which is not replaced), and
\* no error is raised.
C4_RecognitionUpsert ==
    [][(call'.op = "insert_gene" /\ evolution_history' # evolution_history
            /\ call'.uid \in DOMAIN genes) =>
          LET old == genes[call'.uid]
              new == genes'[call'.uid]
              incoming == call'.gene
          IN  /\ DOMAIN genes' = DOMAIN genes
              /\ ExperienceCount(new) = ExperienceCount(old) + 1
              /\ new.name = old.name /\ new.status = old.status /\ new.codons = old.codons
              /\ \A k \in DOMAIN incoming.metadata \ {"experience_count"} :
                     k \in DOMAIN new.metadata /\ new.metadata[k] = incoming.metadata[k]
              /\ \A k \in DOMAIN old.metadata \ DOMAIN incoming.metadata :
                     k = "experience_count" \/ k \in DOMAIN new.metadata]_vars

-----------------------------------------------------------------------------
(* ComputationalRibosome: translate_gene and invalidate_cache.              *)

\* a translate_gene that rebuilds the plan on every call
translate_gene_uncached(cache, table, gene_uid) ==
    LET g == get_gene(table, gene_uid)
    IN  IF g = Absent \/ Get(g).status # "active"
        THEN [raised |-> TRUE, cache_hit |-> FALSE, plan |-> Absent, cache |-> cache]
        ELSE [raised |-> FALSE, cache_hit |-> FALSE, plan |-> Some(BuildPlan(Get(g))),
              cache |-> DictSet(cache, gene_uid, BuildPlan(Get(g)))]

\* translate_gene: what it returns or raises, and the cache as it is left
translate_gene(cache, table, gene_uid) ==
    IF gene_uid \in DOMAIN cache
    THEN [raised |-> FALSE, cache_hit |-> TRUE, plan |-> Some(cache[gene_uid]),
          cache |-> cache]
    ELSE LET g == get_gene(table, gene_uid)
         IN  IF g = Absent
             THEN [raised |-> TRUE, cache_hit |-> FALSE, plan |-> Absent, cache |-> cache]
             ELSE IF Get(g).status # "active"
             THEN [raised |-> TRUE, cache_hit |-> FALSE, plan |-> Absent, cache |-> cache]
             ELSE [raised |-> FALSE, cache_hit |-> FALSE,
                   plan |-> Some(BuildPlan(Get(g))),
                   cache |-> DictSet(cache, gene_uid, BuildPlan(Get(g)))]

\* translation_cache.pop(gene_uid, None)
DictPop(d, k) == [x \in DOMAIN d \ {k} |-> d[x]]

\* invalidate_cache(gene_uid), or invalidate_cache() when gene_uid is None
invalidate_cache(cache, gene_uid) ==
    IF gene_uid # None THEN DictPop(cache, gene_uid) ELSE EmptyDict

-----------------------------------------------------------------------------
(* SpecRibo: a genome with a ribosome.  Genes are inserted as drafts, then  *)
(* changed through the objects the genome holds; plans are translated and   *)
(* the cache is invalidated, in any order.                                  *)

\* the units a caller adds to a gene of this specification, in this order:
\* every gene holds a prefix of the list, so its units are all different
RiboUnits == <<InfoCodon, CriticalCodon, WarningCodon, InfoCodon>>

\* the most insert_gene calls in this specification
MaxInserts == 2

InitRibo ==
    /\ InitGenome
    /\ translation_cache = EmptyDict
    /\ last_translation = EmptyDict /\ genomes = EmptyDict /\ heap = <<>>
    /\ translators = EmptyDict /\ invalidated = TRUE
    /\ situation = Absent /\ motor_history = EmptyDict
    /\ call = NoCall
    /\ OtherInitStore

RiboFrame == UNCHANGED <<orchVars, execVars, gene, concVars, motorVars, aliasVars>>

\* a caller inserts a new gene object: OperationalGene(uid, name, purpose),
\* a draft without codons
RiboInsert ==
    /\ Len(evolution_history) < MaxInserts
    /\ \E uid \in GeneUids :
         LET g == OperationalGene(uid, "Emergency Shutdown", "draft", <<>>, EmptyDict)
             after == insert_gene(TheStore, g, "default", "primary")
         IN  /\ genes' = after.genes
             /\ stems' = after.stems
             /\ chromosomes' = after.chromosomes
             /\ evolution_history' = after.evolution_history
             /\ last_translation' = DictPop(last_translation, uid)
    /\ call' = [op |-> "insert_gene"]
    /\ UNCHANGED translation_cache
    /\ RiboFrame

RiboAddCodon ==
    /\ \E uid \in DOMAIN genes :
         /\ Len(genes[uid].codons) < MaxCodons
         /\ Len(genes[uid].codons) < Len(RiboUnits)
         /\ genes' = [genes EXCEPT ![uid] =
                         add_codon(@, RiboUnits[Len(genes[uid].codons) + 1])]
         /\ last_translation' = DictPop(last_translation, uid)
    /\ call' = [op |-> "add_codon"]
    /\ UNCHANGED <<stems, chromosomes, evolution_history, translation_cache>>
    /\ RiboFrame

RiboActivate ==
    /\ \E uid \in DOMAIN genes :
         /\ genes' = [genes EXCEPT ![uid] = activate(@).gene]
         /\ last_translation' = DictPop(last_translation, uid)
    /\ call' = [op |-> "activate"]
    /\ UNCHANGED <<stems, chromosomes, evolution_history, translation_cache>>
    /\ RiboFrame

RiboDeprecate ==
    /\ \E uid \in DOMAIN genes :
         /\ genes' = [genes EXCEPT ![uid] = deprecate(@, "")]
         /\ last_translation' = DictPop(last_translation, uid)
    /\ call' = [op |-> "deprecate"]
    /\ UNCHANGED <<stems, chromosomes, evolution_history, translation_cache>>
    /\ RiboFrame

TranslateGene ==
    /\ \E uid \in GeneUids :
         LET done == translate_gene(translation_cache, genes, uid)
         IN  /\ translation_cache' = done.cache
             /\ last_translation' =
                    IF done.raised THEN DictPop(last_translation, uid)
                    ELSE DictSet(last_translation, uid, Get(done.plan))
             /\ call' = [op |-> "translate_gene", uid |-> uid, raised |-> done.raised,
                         cache_hit |-> done.cache_hit, plan |-> done.plan]
    /\ UNCHANGED storeVars
    /\ RiboFrame

InvalidateCache ==
    /\ \E uid \in GeneUids \cup {None} :
         /\ translation_cache' = invalidate_cache(translation_cache, uid)
         /\ last_translation' = invalidate_cache(last_translation, uid)
    /\ call' = [op |-> "invalidate_cache"]
    /\ UNCHANGED storeVars
    /\ RiboFrame

NextRibo ==
    \/ RiboInsert
    \/ RiboAddCodon
    \/ RiboActivate
    \/ RiboDeprecate
    \/ TranslateGene
    \/ InvalidateCache

SpecRibo == InitRibo /\ [][NextRibo]_vars

-----------------------------------------------------------------------------
(* Properties of translate_gene (SpecRibo).                                 *)

\* the gene is in the store and ACTIVE
IsActiveInStore(uid) == uid \in DOMAIN genes /\ genes[uid].status = "active"

\* one step per codon, in codon order: step i carries codon i and order = i
StepsFollowCodons(steps, codons) ==
    /\ Len(steps) = Len(codons)
    /\ \A i \in 1..Len(steps) : steps[i].codon = codons[i] /\ steps[i].order = i

\* C5: translate_gene(id) fails with a state error on every call made while
\* the template is missing from the store or not ACTIVE, whatever calls came
\* before; it returns a plan only when the template is present and ACTIVE.
C5_TranslateNeedsActive ==
    call.op = "translate_gene" => (call.raised <=> ~IsActiveInStore(call.uid))

\* C6 as claimed: the plan returned by translate_gene(id) for an ACTIVE
\* template holds exactly one step per atomic unit the template has at the
\* time of the call, in unit order, also after units were added between two
\* translate calls.
C6_PlanFollowsUnits ==
    (call.op = "translate_gene" /\ ~call.raised /\ IsActiveInStore(call.uid)) =>
        StepsFollowCodons(Get(call.plan).steps, genes[call.uid].codons)

\* C6 as amended: the plan translate_gene(id) builds on a cache miss for an
\* ACTIVE template holds exactly one step per atomic unit the template has at
\* the time of the call, in unit order (step i carries unit i, order = i).
C6_BuiltPlanFollowsUnits ==
    (call.op = "translate_gene" /\ ~call.raised /\ ~call.cache_hit) =>
        /\ IsActiveInStore(call.uid)
        /\ StepsFollowCodons(Get(call.plan).steps, genes[call.uid].codons)
        /\ Get(call.plan).total_steps = Len(genes[call.uid].codons)

\* C6's case: a plan is built for a template of two different units.
C6_Witness ==
    /\ call.op = "translate_gene" /\ ~call.raised /\ ~call.cache_hit
    /\ Len(genes[call.uid].codons) = 2
    /\ genes[call.uid].codons[1] # genes[call.uid].codons[2]
    /\ Get(call.plan).steps[2].codon = genes[call.uid].codons[2]

\* C7: two successive translate_gene calls on the same ACTIVE template, with
\* no template mutation and no cache invalidation in between, return plans of
\* identical step count and ordering, and the second call is a cache hit
\* that builds no plan and leaves the cache as it was.
C7_TranslateTwice ==
    [][(call'.op = "translate_gene" /\ call'.uid \in DOMAIN last_translation
            /\ IsActiveInStore(call'.uid)) =>
          LET first  == last_translation[call'.uid]
          IN  /\ ~call'.raised
              /\ call'.cache_hit
              /\ Len(Get(call'.plan).steps) = Len(first.steps)
              /\ \A i \in 1..Len(first.steps) :
                     /\ Get(call'.plan).steps[i].order = first.steps[i].order
                     /\ Get(call'.plan).steps[i].codon = first.steps[i].codon
              /\ translation_cache' = translation_cache]_vars

\* C7's case: a second translate call on an ACTIVE template of two units,
\* answered from the cache with the plan the first call returned.
C7_Witness ==
    /\ call.op = "translate_gene" /\ ~call.raised /\ call.cache_hit
    /\ IsActiveInStore(call.uid)
    /\ call.uid \in DOMAIN last_translation
    /\ Len(Get(call.plan).steps) = 2
    /\ StepsFollowCodons(Get(call.plan).steps, genes[call.uid].codons)

-----------------------------------------------------------------------------
(* SpecConc: concurrent callers of one ribosome.  translate_gene runs one   *)
(* statement at a time in each caller; a gene held by the genome is changed *)
(* (add_codon) and invalidate_cache is called, interleaved with them.  The  *)
(* methods take no lock.                                                    *)

\* the concurrent callers of translate_gene
Translators == {"t1", "t2"}

\* a caller outside translate_gene
IdleTranslator ==
    [pc |-> "idle", uid |-> None, found |-> FALSE, steps |-> <<>>, plan |-> Absent,
     later |-> FALSE]

\* a genome holding one ACTIVE gene of one unit, and an empty cache
InitConc ==
    /\ genes = [uid \in {"gene-1"} |->
                   OperationalGene(uid, "Emergency Shutdown", "active",
                                   <<RiboUnits[1]>>, EmptyDict)]
    /\ stems = [k \in {"default"} |-> <<"gene-1">>]
    /\ chromosomes = [k \in {"primary"} |-> <<"gene-1">>]
    /\ evolution_history =
           <<[event_type |-> "insertion", gene_uid |-> "gene-1",
              gene_name |-> "Emergency Shutdown", stem |-> "default",
              chromosome |-> "primary"]>>
    /\ translation_cache = EmptyDict
    /\ last_translation = EmptyDict /\ genomes = EmptyDict /\ heap = <<>>
    /\ translators = [t \in Translators |-> IdleTranslator]
    /\ invalidated = TRUE
    /\ situation = Absent /\ motor_history = EmptyDict
    /\ call = NoCall
    /\ OtherInitStore

ConcFrame == UNCHANGED <<orchVars, execVars, gene, last_translation, motorVars, aliasVars>>

\* the caller t moves on: its record becomes r
Goto(t, r) == translators' = [translators EXCEPT ![t] = r]

\* a caller enters translate_gene(uid)
TrCall(t) ==
    /\ translators[t].pc = "idle"
    /\ \E uid \in GeneUids :
         Goto(t, [IdleTranslator EXCEPT !.pc = "check", !.uid = uid,
                                        !.later = invalidated])
    /\ UNCHANGED <<storeVars, translation_cache, invalidated, call>>
    /\ ConcFrame

\* `if gene_uid in self.translation_cache:`
TrCheck(t) ==
    /\ translators[t].pc = "check"
    /\ Goto(t, [translators[t] EXCEPT
                   !.pc = IF translators[t].uid \in DOMAIN translation_cache
                          THEN "hit" ELSE "get"])
    /\ UNCHANGED <<storeVars, translation_cache, invalidated, call>>
    /\ ConcFrame

\* `return self.translation_cache[gene_uid]`: KeyError when the entry is gone
TrHit(t) ==
    /\ translators[t].pc = "hit"
    /\ LET uid == translators[t].uid
       IN  call' = IF uid \in DOMAIN translation_cache
                   THEN [op |-> "translate_gene", uid |-> uid, raised |-> FALSE,
                         plan |-> Some(translation_cache[uid]),
                         later |-> translators[t].later]
                   ELSE [op |-> "translate_gene", uid |-> uid, raised |-> TRUE,
                         plan |-> Absent, later |-> translators[t].later]
    /\ Goto(t, IdleTranslator)
    /\ UNCHANGED <<storeVars, translation_cache, invalidated>>
    /\ ConcFrame

\* `gene = self.genome.get_gene(gene_uid)`: a reference to the stored object
TrGet(t) ==
    /\ translators[t].pc = "get"
    /\ Goto(t, [translators[t] EXCEPT
                   !.pc = "test",
                   !.found = get_gene(genes, translators[t].uid) # Absent])
    /\ UNCHANGED <<storeVars, translation_cache, invalidated, call>>
    /\ ConcFrame

\* `if not gene: raise`, `if gene.status != GeneStatus.ACTIVE: raise`
TrTest(t) ==
    /\ translators[t].pc = "test"
    /\ LET uid == translators[t].uid
           ok  == translators[t].found /\ genes[uid].status = "active"
       IN  IF ok
           THEN /\ Goto(t, [translators[t] EXCEPT !.pc = "loop"])
                /\ UNCHANGED call
           ELSE /\ Goto(t, IdleTranslator)
                /\ call' = [op |-> "translate_gene", uid |-> uid, raised |-> TRUE,
                            plan |-> Absent, later |-> translators[t].later]
    /\ UNCHANGED <<storeVars, translation_cache, invalidated>>
    /\ ConcFrame

\* one turn of `for i, codon in enumerate(gene.codons)` over the live list:
\* the next step is appended, or the loop ends
TrLoop(t) ==
    /\ translators[t].pc = "loop"
    /\ LET codons == genes[translators[t].uid].codons
           i == Len(translators[t].steps) + 1
       IN  IF i <= Len(codons)
           THEN Goto(t, [translators[t] EXCEPT
                            !.steps = Append(@, [order |-> i, codon |-> codons[i],
                                                 status |-> "success",
                                                 error |-> None])])
           ELSE Goto(t, [translators[t] EXCEPT !.pc = "plan"])
    /\ UNCHANGED <<storeVars, translation_cache, invalidated, call>>
    /\ ConcFrame

\* `plan = ExecutionPlan(...)` from the steps built and the gene as it is now
TrPlan(t) ==
    /\ translators[t].pc = "plan"
    /\ LET g == genes[translators[t].uid]
           steps == translators[t].steps
       IN  Goto(t, [translators[t] EXCEPT
                       !.pc = "store",
                       !.plan = Some([gene_uid |-> g.uid, gene_name |-> g.name,
                                      steps |-> steps, total_steps |-> Len(steps),
                                      safety_level |-> GeneSafetyLevel(g)])])
    /\ UNCHANGED <<storeVars, translation_cache, invalidated, call>>
    /\ ConcFrame

\* `self.translation_cache[gene_uid] = plan`
TrStore(t) ==
    /\ translators[t].pc = "store"
    /\ translation_cache' =
           DictSet(translation_cache, translators[t].uid, Get(translators[t].plan))
    /\ Goto(t, [translators[t] EXCEPT !.pc = "return"])
    /\ UNCHANGED <<storeVars, invalidated, call>>
    /\ ConcFrame

\* `return plan`
TrReturn(t) ==
    /\ translators[t].pc = "return"
    /\ call' = [op |-> "translate_gene", uid |-> translators[t].uid,
                raised |-> FALSE, plan |-> translators[t].plan,
                later |-> translators[t].later]
    /\ Goto(t, IdleTranslator)
    /\ UNCHANGED <<storeVars, translation_cache, invalidated>>
    /\ ConcFrame

\* another caller changes a stored gene: gene.add_codon(codon)
ConcAddCodon ==
    /\ \E uid \in DOMAIN genes :
         /\ Len(genes[uid].codons) < MaxCodons
         /\ Len(genes[uid].codons) < Len(RiboUnits)
         /\ genes' = [genes EXCEPT ![uid] =
                         add_codon(@, RiboUnits[Len(genes[uid].codons) + 1])]
    /\ invalidated' = FALSE
    /\ translators' = [t \in Translators |-> [translators[t] EXCEPT !.later = FALSE]]
    /\ call' = [op |-> "add_codon"]
    /\ UNCHANGED <<stems, chromosomes, evolution_history, translation_cache>>
    /\ ConcFrame

\* another caller runs invalidate_cache(uid) or invalidate_cache(): one
\* pop or clear on the cache
ConcInvalidate ==
    /\ \E uid \in DOMAIN genes \cup {None} :
         translation_cache' = invalidate_cache(translation_cache, uid)
    /\ invalidated' = TRUE
    /\ call' = [op |-> "invalidate_cache"]
    /\ UNCHANGED <<storeVars, translators>>
    /\ ConcFrame

NextConc ==
    \/ \E t \in Translators :
         \/ TrCall(t) \/ TrCheck(t) \/ TrHit(t) \/ TrGet(t) \/ TrTest(t)
         \/ TrLoop(t) \/ TrPlan(t) \/ TrStore(t) \/ TrReturn(t)
    \/ ConcAddCodon
    \/ ConcInvalidate

SpecConc == InitConc /\ [][NextConc]_vars

\* C13: with translate_gene and invalidate_cache interleaved between
\* concurrent callers at statement granularity, once invalidate_cache has
\* completed after a change of the gene, no plan built from the gene's
\* state before the change is in the cache, and none is returned by a
\* translate_gene call made after the invalidation.
C13_CacheSyncWithInvalidation ==
    invalidated =>
        /\ \A uid \in DOMAIN translation_cache :
               uid \in DOMAIN genes =>
                   StepsFollowCodons(translation_cache[uid].steps, genes[uid].codons)
        /\ (call.op = "translate_gene" /\ ~call.raised /\ call.later) =>
               StepsFollowCodons(Get(call.plan).steps, genes[call.uid].codons)

-----------------------------------------------------------------------------
(* DigitalGenome.find_genes_by_context.  Strings are sequences of           *)
(* characters, so that `in` (substring) and lower() are computed.           *)

\* str.lower()
Lower(str) ==
    [i \in 1..Len(str) |->
        IF str[i] = "A" THEN "a" ELSE IF str[i] = "B" THEN "b" ELSE str[i]]

\* `needle in hay` on Python strings
Contains(hay, needle) ==
    \E k \in 0..Len(hay) :
        /\ k + Len(needle) <= Len(hay)
        /\ \A i \in 1..Len(needle) : hay[k + i] = needle[i]

\* the relevance find_genes_by_context computes for one gene
relevance(g, context) ==
    LET context_lower == Lower(context)
        hits == {key \in DOMAIN g.metadata : Contains(Lower(g.metadata[key]), context_lower)}
    IN  (IF Contains(Lower(g.name), context_lower) THEN 3 ELSE 0)
        + (IF Contains(Lower(g.purpose), context_lower) THEN 2 ELSE 0)
        + Cardinality(hits)

\* the keys of a dict filled by insert_gene, in iteration order: the order
\* of their first insertion
RECURSIVE DictOrder(_)
DictOrder(history) ==
    IF history = <<>> THEN <<>>
    ELSE LET front == DictOrder(SubSeq(history, 1, Len(history) - 1))
             uid   == history[Len(history)].gene_uid
         IN  IF \E i \in 1..Len(front) : front[i] = uid THEN front
             ELSE Append(front, uid)

\* list.sort(key=lambda x: x[0], reverse=True): descending and stable
RECURSIVE SortDesc(_)
SortDesc(matches) ==
    IF matches = <<>> THEN <<>>
    ELSE LET sorted == SortDesc(SubSeq(matches, 1, Len(matches) - 1))
             x      == matches[Len(matches)]
             keep   == {i \in 1..Len(sorted) : sorted[i][1] >= x[1]}
             n      == Cardinality(keep)
         IN  SubSeq(sorted, 1, n) \o <<x>> \o SubSeq(sorted, n + 1, Len(sorted))

\* DigitalGenome.find_genes_by_context: the genes returned, in order
find_genes_by_context(store, context) ==
    LET order   == DictOrder(store.evolution_history)
        scored  == [i \in 1..Len(order) |->
                       <<relevance(store.genes[order[i]], context), order[i]>>]
        matches == SelectSeq(scored, LAMBDA m : m[1] > 0)
        sorted  == SortDesc(matches)
    IN  [i \in 1..Len(sorted) |-> store.genes[sorted[i][2]]]

-----------------------------------------------------------------------------
(* SpecQuery: genes with names, purposes and metadata are inserted into a   *)
(* genome and searched with find_genes_by_context.                          *)

QueryUids == {"gene-1", "gene-2", "gene-3"}

\* name, purpose and metadata of the genes inserted
QueryProfiles ==
    {[name |-> <<"a", " ", "b">>, purpose |-> <<"b">>,
      metadata |-> [owner |-> <<"a">>]],
     [name |-> <<"a", "b">>, purpose |-> <<"a">>,
      metadata |-> [owner |-> <<"b">>, site |-> <<"b", " ", "a">>]],
     [name |-> <<"B", " ", "a">>, purpose |-> <<>>, metadata |-> EmptyDict]}

QueryGenes ==
    {[uid |-> uid, name |-> p.name, purpose |-> p.purpose, status |-> "draft",
      codons |-> <<>>, metadata |-> p.metadata] : uid \in QueryUids, p \in QueryProfiles}

\* the search texts: empty, one word, part of a word, upper case, several
\* words in either order
QueryTexts ==
    {<<>>, <<"a">>, <<"b">>, <<"A">>, <<"a", "b">>, <<"a", " ", "b">>,
     <<"b", " ", "a">>, <<"c">>}

InitQuery ==
    /\ InitGenome
    /\ translation_cache = EmptyDict
    /\ last_translation = EmptyDict /\ genomes = EmptyDict /\ heap = <<>>
    /\ translators = EmptyDict /\ invalidated = TRUE
    /\ situation = Absent /\ motor_history = EmptyDict
    /\ call = NoCall
    /\ OtherInitStore

QueryFrame == UNCHANGED <<orchVars, execVars, gene, translation_cache,
                          last_translation, concVars, motorVars, aliasVars>>

QueryInsert ==
    /\ Len(evolution_history) < MaxEvents
    /\ \E g \in QueryGenes :
         LET after == insert_gene(TheStore, g, "default", "primary")
         IN  /\ genes' = after.genes
             /\ stems' = after.stems
             /\ chromosomes' = after.chromosomes
             /\ evolution_history' = after.evolution_history
    /\ call' = [op |-> "insert_gene"]
    /\ QueryFrame

FindGenesByContext ==
    /\ \E context \in QueryTexts :
         call' = [op |-> "find_genes_by_context", context |-> context,
                  result |-> find_genes_by_context(TheStore, context)]
    /\ UNCHANGED storeVars
    /\ QueryFrame

NextQuery == QueryInsert \/ FindGenesByContext

SpecQuery == InitQuery /\ [][NextQuery]_vars

\* the words of a string: its maximal runs of non-blank characters
Words(str) ==
    LET runs == {p \in (1..Len(str)) \X (1..Len(str)) :
                    /\ p[1] <= p[2]
                    /\ \A k \in p[1]..p[2] : str[k] # " "
                    /\ p[1] = 1 \/ str[p[1] - 1] = " "
                    /\ p[2] = Len(str) \/ str[p[2] + 1] = " "}
    IN  {SubSeq(str, p[1], p[2]) : p \in runs}

\* the reference word overlap: the number of words two strings share,
\* letter case aside
WordOverlap(text, field) ==
    Cardinality(Words(Lower(text)) \cap Words(Lower(field)))

\* the relevance by word overlap: 3 x name + 2 x purpose + 1 x any metadata
\* value
WordRelevance(g, text) ==
    3 * WordOverlap(text, g.name) + 2 * WordOverlap(text, g.purpose)
    + Cardinality(Words(Lower(text)) \cap
                  UNION {Words(Lower(g.metadata[key])) : key \in DOMAIN g.metadata})

\* C14: find_genes_by_context(text) gives each gene the relevance
\* 3 x (word overlap of text with the name) + 2 x (word overlap with the
\* purpose) + 1 x (word overlap with any metadata value), returns exactly the
\* genes with relevance > 0 and leaves out every gene with relevance 0.
C14_RelevanceByWordOverlap ==
    call.op = "find_genes_by_context" =>
        /\ \A uid \in DOMAIN genes :
               relevance(genes[uid], call.context) = WordRelevance(genes[uid], call.context)
        /\ {call.result[i].uid : i \in 1..Len(call.result)} =
               {uid \in DOMAIN genes : WordRelevance(genes[uid], call.context) > 0}

\* C15: the list find_genes_by_context returns is non-increasing in
\* relevance, and two returned genes of equal relevance appear in the order
\* in which they were first inserted into the store.
C15_RankingStable ==
    call.op = "find_genes_by_context" =>
        LET result == call.result
            rel(i) == WordRelevance(result[i], call.context)
            order  == DictOrder(evolution_history)
            pos(u) == CHOOSE k \in 1..Len(order) : order[k] = u
        IN  \A i \in 1..Len(result), j \in 1..Len(result) :
                i < j =>
                    /\ rel(i) >= rel(j)
                    /\ rel(i) = rel(j) => pos(result[i].uid) < pos(result[j].uid)

-----------------------------------------------------------------------------
(* Identifiers and documents: make_uid, PraxeologicalCodon.uid, to_dict and *)
(* from_dict of codons, genes and genomes.                                  *)

\* make_uid: the SHA-256 digest of "prefix:c1:c2:...", taken as the payload
\* itself (equal payloads give equal digests, different payloads different
\* ones)
make_uid(prefix, components) ==
    LET RECURSIVE Join(_)
        Join(cs) == IF cs = <<>> THEN <<>>
                    ELSE IF Len(cs) = 1 THEN cs
                    ELSE <<Head(cs), ":">> \o Join(Tail(cs))
    IN  <<prefix, ":">> \o Join(components)

\* PraxeologicalCodon.uid
PraxeologicalCodon_uid(c) ==
    make_uid("codon", <<c.entity_id, c.action_id, c.target_state_id>>)

\* PraxeologicalCodon.to_dict
PraxeologicalCodon_to_dict(c) ==
    [uid |-> PraxeologicalCodon_uid(c), entity_id |-> c.entity_id,
     action_id |-> c.action_id, target_state_id |-> c.target_state_id,
     safety_level |-> c.safety_level]

\* PraxeologicalCodon.from_dict: the uid of the document is not read
PraxeologicalCodon_from_dict(data) ==
    Codon(data.entity_id, data.action_id, data.target_state_id,
          IF "safety_level" \in DOMAIN data THEN data.safety_level ELSE "info")

\* OperationalGene.to_dict, with the purpose and the fitness scores
OperationalGene_to_dict(g) ==
    [uid |-> g.uid, name |-> g.name, purpose |-> g.purpose, status |-> g.status,
     codons |-> [i \in 1..Len(g.codons) |-> PraxeologicalCodon_to_dict(g.codons[i])],
     metadata |-> g.metadata, fitness_scores |-> g.fitness_scores]

\* a from_dict that leaves the codons out
OperationalGene_from_dict_without_codons(data) ==
    [uid |-> data.uid, name |-> data.name, purpose |-> data.purpose,
     status |-> data.status, codons |-> <<>>, metadata |-> data.metadata,
     fitness_scores |-> data.fitness_scores]

\* OperationalGene.from_dict, with the purpose and the fitness scores
OperationalGene_from_dict(data) ==
    [uid |-> data.uid, name |-> data.name, purpose |-> data.purpose,
     status |-> IF "status" \in DOMAIN data THEN data.status ELSE "draft",
     codons |-> IF "codons" \in DOMAIN data
                THEN [i \in 1..Len(data.codons) |->
                         PraxeologicalCodon_from_dict(data.codons[i])]
                ELSE <<>>,
     metadata |-> IF "metadata" \in DOMAIN data THEN data.metadata ELSE EmptyDict,
     fitness_scores |-> IF "fitness_scores" \in DOMAIN data
                        THEN data.fitness_scores ELSE EmptyDict]

\* OperationalGene.record_fitness
record_fitness(g, context_signature, score) ==
    [g EXCEPT !.fitness_scores = DictSet(@, context_signature, score)]

\* DigitalGenome.to_dict
DigitalGenome_to_dict(store) ==
    [genes |-> [k \in DOMAIN store.genes |-> OperationalGene_to_dict(store.genes[k])],
     stems |-> store.stems, chromosomes |-> store.chromosomes,
     evolution_history |-> store.evolution_history]

\* DigitalGenome.from_dict: each gene goes under its own uid, in the
\* document's order, a later one replacing an earlier one under the same uid
DigitalGenome_from_dict(data) ==
    LET docs  == data.genes
        order == DictOrder(data.evolution_history)
        keys  == {docs[k].uid : k \in DOMAIN docs}
        last(u) == CHOOSE k \in DOMAIN docs :
                       /\ docs[k].uid = u
                       /\ \A k2 \in DOMAIN docs :
                              (docs[k2].uid = u /\ k2 # k) =>
                                  \E i, i2 \in 1..Len(order) :
                                      order[i] = k /\ order[i2] = k2 /\ i2 < i
    IN  [genes |-> [u \in keys |-> OperationalGene_from_dict(docs[last(u)])],
         stems |-> data.stems, chromosomes |-> data.chromosomes,
         evolution_history |-> data.evolution_history]

-----------------------------------------------------------------------------
(* SpecTrip: genes with codons are inserted into a genome, fitness scores   *)
(* are recorded on them, and the genome is exported and re-imported.        *)

\* the gene objects inserted: per uid, any prefix of the unit list
TripGenes ==
    {[uid |-> uid, name |-> "Emergency Shutdown", purpose |-> "stop the pump",
      status |-> "draft", codons |-> SubSeq(RiboUnits, 1, n),
      metadata |-> [executor |-> "operator"], fitness_scores |-> EmptyDict] :
        uid \in GeneUids,
        n \in {m \in 0..Len(RiboUnits) : m <= MaxCodons}}

\* the scores record_fitness is given
FitnessScores == {R(1, 2), One}

InitTrip ==
    /\ InitGenome
    /\ translation_cache = EmptyDict
    /\ last_translation = EmptyDict /\ genomes = EmptyDict /\ heap = <<>>
    /\ translators = EmptyDict /\ invalidated = TRUE
    /\ situation = Absent /\ motor_history = EmptyDict
    /\ call = NoCall
    /\ OtherInitStore

TripInsert ==
    /\ Len(evolution_history) < MaxEvents
    /\ \E g \in TripGenes :
         LET after == insert_gene(TheStore, g, "default", "primary")
         IN  /\ genes' = after.genes
             /\ stems' = after.stems
             /\ chromosomes' = after.chromosomes
             /\ evolution_history' = after.evolution_history
    /\ call' = [op |-> "insert_gene"]
    /\ QueryFrame

TripRecordFitness ==
    /\ \E key \in DOMAIN genes, score \in FitnessScores :
         genes' = [genes EXCEPT ![key] = record_fitness(@, "context-1", score)]
    /\ call' = [op |-> "record_fitness"]
    /\ UNCHANGED <<stems, chromosomes, evolution_history>>
    /\ QueryFrame

\* DigitalGenome.from_dict(genome.to_dict())
RoundTrip ==
    /\ call' = [op |-> "from_dict",
                genome |-> DigitalGenome_from_dict(DigitalGenome_to_dict(TheStore))]
    /\ UNCHANGED storeVars
    /\ QueryFrame

NextTrip == TripInsert \/ TripRecordFitness \/ RoundTrip

SpecTrip == InitTrip /\ [][NextTrip]_vars

-----------------------------------------------------------------------------
(* SpecUid: identifiers of atomic units.  Two codons are made, by the       *)
(* PraxeologicalCodon constructor or by BaseLoader.assemble_codon, from     *)
(* inputs drawn from small sets, and their identifiers are computed.        *)

\* hashlib.sha256(json.dumps(context, sort_keys=True)): the digest, taken as
\* the dict itself
ContextHash(context) == <<"sha256", context>>

\* BaseLoader.assemble_codon: the codon dict, its uid the digest of the JSON
\* text of entity, action, state, timestamp and context hash
assemble_codon(triple, context, timestamp, sequence_position) ==
    [entity_id |-> triple.entity, action_id |-> triple.action,
     target_state_id |-> triple.state, parameters |-> triple.source_record,
     context |-> context, timestamp |-> timestamp,
     sequence_position |-> sequence_position,
     extraction_confidence |-> triple.confidence, safety_level |-> "info",
     uid |-> <<"sha256",
               [action |-> triple.action, context_hash |-> ContextHash(context),
                entity |-> triple.entity, state |-> triple.state,
                timestamp |-> timestamp]>>]

\* PraxeologicalCodon objects with all their fields
FullCodons ==
    [entity_id : {"pump-401"}, action_id : {"stop", "inspect"},
     target_state_id : {"stopped"},
     parameters : {EmptyDict, [speed |-> "low"]},
     postconditions : {<<>>, <<"pump stopped">>},
     safety_level : {"info", "critical"},
     context : {EmptyDict, [shift |-> "night"]}]

\* PraxeologicalTriple objects
ExtractedTriples ==
    [entity : {"pump-401"}, action : {"stop", "inspect"},
     state : {"stopped"}, source_record : {EmptyDict}, confidence : {One}]

Contexts == {EmptyDict, [shift |-> "night"]}
Timestamps == {1000, 2000}
SequencePositions == {0, 1}

InitUid ==
    /\ InitGenome
    /\ translation_cache = EmptyDict
    /\ last_translation = EmptyDict /\ genomes = EmptyDict /\ heap = <<>>
    /\ translators = EmptyDict /\ invalidated = TRUE
    /\ situation = Absent /\ motor_history = EmptyDict
    /\ call = NoCall
    /\ OtherInitStore

\* two PraxeologicalCodon objects and their uid properties
CodonUids ==
    /\ \E a \in FullCodons, b \in FullCodons :
         call' = [op |-> "codon_uid", a |-> a, b |-> b,
                  uid_a |-> PraxeologicalCodon_uid(a),
                  uid_b |-> PraxeologicalCodon_uid(b)]
    /\ UNCHANGED storeVars
    /\ QueryFrame

\* two codons assembled by a loader
AssembleCodons ==
    /\ \E ta \in ExtractedTriples, tb \in ExtractedTriples,
          ca \in Contexts, cb \in Contexts, sa \in Timestamps, sb \in Timestamps,
          pa \in SequencePositions, pb \in SequencePositions :
         LET a == assemble_codon(ta, ca, sa, pa)
             b == assemble_codon(tb, cb, sb, pb)
         IN  call' = [op |-> "assemble_codon", a |-> a, b |-> b,
                      uid_a |-> a.uid, uid_b |-> b.uid]
    /\ UNCHANGED storeVars
    /\ QueryFrame

NextUid == CodonUids \/ AssembleCodons

SpecUid == InitUid /\ [][NextUid]_vars

\* C17: an atomic unit's identifier is a function of its (entity, action,
\* target state) triple only: two units with the same triple have the same
\* identifier whatever their parameters, postconditions, safety tier,
\* context, timestamp or sequence position, for PraxeologicalCodon.uid and
\* for the codons BaseLoader.assemble_codon makes.
C17_UidFromTripleOnly ==
    (/\ call.op \in {"codon_uid", "assemble_codon"}
     /\ call.a.entity_id = call.b.entity_id
     /\ call.a.action_id = call.b.action_id
     /\ call.a.target_state_id = call.b.target_state_id)
        => call.uid_a = call.uid_b

-----------------------------------------------------------------------------
(* The motors' helper methods: from the gene, the context and the intent to *)
(* the factor values.  Within the genes modelled no factor comes closer     *)
(* than 1/20 to a threshold, so exact rationals decide every comparison as  *)
(* the floats do.                                                           *)

RAdd(x, y) == R(x[1] * y[2] + y[1] * x[2], x[2] * y[2])
RSub(x, y) == R(x[1] * y[2] - y[1] * x[2], x[2] * y[2])
RMin(x, y) == IF RLe(x, y) THEN x ELSE y
RMax(x, y) == IF RLe(x, y) THEN y ELSE x

\* PraxeologicalMotor._calculate_intent_alignment
calculate_intent_alignment(g, intent) ==
    LET intent_purpose == IF "purpose" \in DOMAIN intent THEN intent.purpose ELSE <<>>
        intent_words == Words(Lower(intent_purpose))
        gene_words   == Words(Lower(g.purpose))
        overlap      == Cardinality(intent_words \cap gene_words)
    IN  IF intent_words = {} THEN R(1, 2)
        ELSE RMax(R(1, 10), RMin(One, R(2 * overlap, Cardinality(intent_words))))

\* PraxeologicalMotor._check_preconditions; a condition is given by its
\* first word (key) and by whether it holds a comparison sign (strict)
check_preconditions(g, context) ==
    LET conds == g.activation_conditions
        known == {i \in 1..Len(conds) : conds[i].key \in DOMAIN context}
    IN  IF conds = <<>> THEN One
        ELSE R(2 * Cardinality(known) + (Len(conds) - Cardinality(known)),
               2 * Len(conds))

\* PraxeologicalMotor._assess_logical_coherence; the codons carry no pre-
\* and postconditions, so every codon after the first takes the 0.9 penalty
RECURSIVE CoherenceUpTo(_, _)
CoherenceUpTo(codons, n) ==
    IF n = 0 THEN One
    ELSE LET c == codons[n]
             a == IF c.entity_id = "" \/ c.action_id = "" THEN R(1, 2) ELSE One
             b == IF n > 1 THEN R(9, 10) ELSE One
         IN  RMul(RMul(CoherenceUpTo(codons, n - 1), a), b)

assess_logical_coherence(g) ==
    IF g.codons = <<>> THEN Zero ELSE CoherenceUpTo(g.codons, Len(g.codons))

\* NashMotor._identify_agents
identify_agents(g, context) ==
    (IF "executor" \in DOMAIN g.metadata THEN {g.metadata["executor"]} ELSE {})
    \cup (IF "target" \in DOMAIN g.metadata THEN {g.metadata["target"]} ELSE {})
    \cup {g.codons[i].entity_id : i \in 1..Len(g.codons)}
    \cup (IF "agents" \in DOMAIN context THEN context["agents"] ELSE {})

\* NashMotor._calculate_equilibrium_proximity
calculate_equilibrium_proximity(g, agents) ==
    IF Cardinality(agents) <= 1 THEN One
    ELSE LET has_reciprocity ==
                 \E i \in 1..Len(g.codons) :
                     g.codons[i].action_id \in {"response", "feedback"}
         IN  RMin(One, IF has_reciprocity THEN R(9, 10) ELSE R(8, 10))

\* an _assess_stability without the cap of 0.3 on the handlers' share
assess_stability_uncapped(g, agents) ==
    LET n == IF Cardinality(agents) > 1 THEN Cardinality(agents) ELSE 1
        exception_coverage == R(Cardinality(DOMAIN g.exception_handlers), n)
    IN  RAdd(R(7, 10), RMul(exception_coverage, R(3, 10)))

\* NashMotor._assess_stability
assess_stability(g, agents) ==
    LET n == IF Cardinality(agents) > 1 THEN Cardinality(agents) ELSE 1
        exception_coverage == R(Cardinality(DOMAIN g.exception_handlers), n)
    IN  RAdd(R(7, 10), RMin(R(3, 10), RMul(exception_coverage, R(3, 10))))

\* NashMotor._assess_multi_agent_coherence
assess_multi_agent_coherence(g, agents) ==
    IF Cardinality(agents) <= 1 THEN One
    ELSE RMin(One, RAdd(RAdd(R(8, 10),
                             IF g.postconditions # <<>> THEN R(1, 10) ELSE Zero),
                        IF g.evaluation_metrics # <<>> THEN R(1, 10) ELSE Zero))

\* ChaoticMotor._estimate_sensitivity
estimate_sensitivity(g) ==
    RMin(One,
         RAdd(RAdd(RAdd(R(2, 10), R(Len(g.codons), 20)),
                   IF GeneSafetyLevel(g) = "critical" THEN R(2, 10) ELSE Zero),
              IF DOMAIN g.exception_handlers = {} THEN R(15, 100) ELSE Zero))

\* ChaoticMotor._estimate_basin_size
estimate_basin_size(g) ==
    LET conds  == g.activation_conditions
        strict == Cardinality({i \in 1..Len(conds) : conds[i].strict})
    IN  RMax(R(1, 10), RSub(R(8, 10), R(2 * strict + (Len(conds) - strict), 20)))

\* ChaoticMotor._assess_perturbation_tolerance
assess_perturbation_tolerance(g) ==
    RMin(One,
         RAdd(RAdd(R(7, 10), R(Cardinality(DOMAIN g.exception_handlers), 20)),
              IF g.postconditions # <<>> THEN R(1, 10) ELSE Zero))

\* the failure modes of the critical codons, in codon order
RECURSIVE CriticalModes(_, _)
CriticalModes(codons, n) ==
    IF n = 0 THEN <<>>
    ELSE CriticalModes(codons, n - 1) \o
         (IF codons[n].safety_level = "critical"
          THEN <<[type |-> "critical_failure", catastrophic |-> TRUE]>>
          ELSE <<>>)

UnhandledMode(g) ==
    IF DOMAIN g.exception_handlers = {}
    THEN <<[type |-> "unhandled_exception", catastrophic |-> FALSE]>>
    ELSE <<>>

\* a _identify_failure_modes that reports the critical codons' failure modes
\* as recoverable
identify_failure_modes_recoverable(g) ==
    LET modes == CriticalModes(g.codons, Len(g.codons))
    IN  [i \in DOMAIN modes |-> [modes[i] EXCEPT !.catastrophic = FALSE]]
            \o UnhandledMode(g)

\* ChaoticMotor._identify_failure_modes
identify_failure_modes(g) ==
    CriticalModes(g.codons, Len(g.codons)) \o UnhandledMode(g)

\* MeristicMetaMotor._detect_patterns
detect_patterns(g) ==
    LET entities == [i \in 1..Len(g.codons) |-> g.codons[i].entity_id]
    IN  (IF Len(g.codons) >= 2
         THEN <<[name |-> "sequential_execution", universality |-> R(9, 10)]>>
         ELSE <<>>)
        \o (IF DOMAIN g.exception_handlers # {}
            THEN <<[name |-> "defensive_execution", universality |-> R(17, 20)]>>
            ELSE <<>>)
        \o (IF g.postconditions # <<>>
            THEN <<[name |-> "goal_directed", universality |-> R(19, 20)]>>
            ELSE <<>>)
        \o (IF Len(entities) # Cardinality({entities[i] : i \in 1..Len(entities)})
            THEN <<[name |-> "feedback_loop", universality |-> R(4, 5)]>>
            ELSE <<>>)

RECURSIVE SumUniversality(_, _)
SumUniversality(patterns, n) ==
    IF n = 0 THEN Zero
    ELSE RAdd(SumUniversality(patterns, n - 1), patterns[n].universality)

\* a _score_pattern_universality that scores a gene without patterns 0.0
score_pattern_universality_empty_zero(patterns) ==
    IF patterns = <<>> THEN Zero
    ELSE RMul(SumUniversality(patterns, Len(patterns)), R(1, Len(patterns)))

\* MeristicMetaMotor._score_pattern_universality
score_pattern_universality(patterns) ==
    IF patterns = <<>> THEN R(1, 2)
    ELSE RMul(SumUniversality(patterns, Len(patterns)), R(1, Len(patterns)))

\* MeristicMetaMotor._analyze_across_scales: the "coherence" entry
analyze_across_scales(g) ==
    LET malformed == Cardinality({i \in 1..Len(g.codons) :
                         g.codons[i].entity_id = "" \/ g.codons[i].action_id = ""})
        micro == RMax(Zero, RSub(One, R(2 * malformed, 10)))
        meso  == IF g.postconditions # <<>> THEN R(8, 10) ELSE R(6, 10)
        macro == IF "domain" \in DOMAIN g.metadata THEN R(8, 10) ELSE R(7, 10)
    IN  RAdd(RAdd(RMul(micro, R(3, 10)), RMul(meso, R(4, 10))),
             RMul(macro, R(3, 10)))

\* MeristicMetaMotor._imagine_improvements: the expected gains
imagine_improvements(g) ==
    (IF Len(g.codons) > 2 THEN <<R(15, 100)>> ELSE <<>>)
    \o (IF Cardinality(DOMAIN g.exception_handlers) > 3 THEN <<R(25, 100)>> ELSE <<>>)
    \o (IF g.evaluation_metrics = <<>> THEN <<R(1, 10)>> ELSE <<>>)

\* MeristicMetaMotor.evaluate: potential_score = 1.0 - improvement_penalty
potential_for_improvement(g) ==
    LET gains == imagine_improvements(g)
        best  == CHOOSE x \in {gains[i] : i \in 1..Len(gains)} :
                     \A i \in 1..Len(gains) : RLe(gains[i], x)
    IN  IF gains = <<>> THEN One
        ELSE RSub(One, RMin(R(3, 10), RMul(best, R(1, 2))))

\* the factor values the motors compute for a gene, a context and an intent
MotorFactors(g, context, intent) ==
    LET agents == identify_agents(g, context)
        modes  == identify_failure_modes(g)
    IN  [intent_alignment |-> calculate_intent_alignment(g, intent),
         precondition_satisfaction |-> check_preconditions(g, context),
         logical_coherence |-> assess_logical_coherence(g),
         n_agents |-> Cardinality(agents),
         equilibrium_proximity |-> calculate_equilibrium_proximity(g, agents),
         stability |-> assess_stability(g, agents),
         multi_agent_coherence |-> assess_multi_agent_coherence(g, agents),
         sensitivity_factor |-> RSub(One, RMin(One, estimate_sensitivity(g))),
         basin_size |-> estimate_basin_size(g),
         perturbation_tolerance |-> assess_perturbation_tolerance(g),
         catastrophic |-> \E k \in DOMAIN modes : modes[k].catastrophic,
         pattern_universality |-> score_pattern_universality(detect_patterns(g)),
         scale_coherence |-> analyze_across_scales(g),
         proximity_to_form |-> potential_for_improvement(g)]

-----------------------------------------------------------------------------
(* The motors and the orchestrator at work (SpecMotor): a gene, a context   *)
(* and an intent are given; each motor's evaluate() and the orchestrator's  *)
(* evaluate_gene() are called in any order.  motor_history holds every      *)
(* instance's evaluation_history.                                           *)

\* the most evaluations recorded over the four motors
MaxEvaluations == 4

MotorNames == {MotorOrder[i] : i \in 1..Len(MotorOrder)}

\* the fields evaluate_gene writes back on a gene, before any evaluation
Unevaluated ==
    [motor_scores : {EmptyDict}, craft_performance : {Absent},
     is_vetoed : {FALSE}, veto_motor : {None}, veto_reason : {None}]

HandlerMaps ==
    {EmptyDict, [timeout |-> "retry"], [timeout |-> "retry", leak |-> "abort"]}

\* genes of one well-formed info codon: no motor vetoes them.  They carry no
\* activation condition, which keeps every product of their twelve factors
\* inside TLC's integers.
InspectGenes ==
    [uid : {"g1"}, name : {<<"a">>}, purpose : {<<"a", " ", "b">>},
     codons : {<<InfoCodon>>},
     metadata : {EmptyDict},
     activation_conditions : {<<>>},
     postconditions : {<<>>, <<"inspected">>},
     exception_handlers : HandlerMaps,
     evaluation_metrics : {<<>>, <<"uptime">>}]

\* genes without codons or with a critical codon: some motor vetoes them
MotorCodonSeqs ==
    {<<>>, <<CriticalCodon>>, <<WarningCodon, CriticalCodon>>}

VetoedGenes ==
    [uid : {"g1"}, name : {<<"a">>}, purpose : {<<"a", " ", "b">>},
     codons : MotorCodonSeqs,
     metadata : {EmptyDict},
     activation_conditions : {<<>>, <<[key |-> "pressure", strict |-> TRUE]>>},
     postconditions : {<<>>, <<"stopped">>},
     exception_handlers : HandlerMaps,
     evaluation_metrics : {<<>>}]

\* g with the fields of r added
WithFields(g, r) ==
    [k \in DOMAIN g \cup DOMAIN r |-> IF k \in DOMAIN r THEN r[k] ELSE g[k]]

MotorGenes ==
    {WithFields(g, u) : g \in InspectGenes \cup VetoedGenes, u \in Unevaluated}

MotorContexts ==
    {EmptyDict, [pressure |-> {"high"}, agents |-> {"operator", "supervisor"}]}

MotorIntents == {EmptyDict, [purpose |-> <<"A">>], [purpose |-> <<"c">>]}

SituationFactors ==
    MotorFactors(Get(situation).gene, Get(situation).context,
                 Get(situation).intent)

\* CognitiveMotor.__init__ and ParallelMotorOrchestrator.__init__
InitMotor ==
    /\ situation \in {Some(x) : x \in [gene : MotorGenes, context : MotorContexts,
                                       intent : MotorIntents]}
    /\ motor_history = [m \in MotorNames \cup {"Orchestrator"} |-> <<>>]
    /\ InitGenome
    /\ translation_cache = EmptyDict
    /\ last_translation = EmptyDict /\ genomes = EmptyDict /\ heap = <<>>
    /\ translators = EmptyDict /\ invalidated = TRUE
    /\ call = NoCall
    /\ OtherInitStore

MotorFrame == UNCHANGED <<factors, cp_calc, execVars, gene, storeVars,
                          translation_cache, last_translation, concVars,
                          aliasVars>>

EvaluationCount ==
    Len(motor_history["Praxeological"]) + Len(motor_history["Nash"])
        + Len(motor_history["Chaotic"]) + Len(motor_history["Meristic"])

\* CognitiveMotor._record_evaluation
record_evaluation(history, m, evaluation) ==
    [history EXCEPT ![m] = Append(@, evaluation)]

\* motor.evaluate(gene, context, intent) of one motor
MotorEvaluate(m) ==
    /\ EvaluationCount < MaxEvaluations
    /\ LET evaluation == RunMotors(SituationFactors)[m]
       IN  /\ motor_history' = record_evaluation(motor_history, m, evaluation)
           /\ call' = [op |-> "evaluate", motor |-> m, evaluation |-> evaluation]
    /\ UNCHANGED <<situation, evaluations, cp_result>>
    /\ MotorFrame

\* OperationalGene.record_motor_scores(praxeological, nash, chaotic,
\* meristic), called by evaluate_gene with the four scores: it caches the
\* scores, their product, and the veto (a zero score) with its source by the
\* fixed priority.  No reason is handed to it.
record_motor_scores(g, praxeological, nash, chaotic, meristic) ==
    LET scores == [Praxeological |-> praxeological, Nash |-> nash,
                   Chaotic |-> chaotic, Meristic |-> meristic]
        zeros  == {i \in 1..Len(MotorOrder) : scores[MotorOrder[i]] = Zero}
        first  == CHOOSE i \in zeros : \A j \in zeros : i <= j
    IN  [g EXCEPT !.motor_scores = scores,
                  !.craft_performance =
                      RMul(RMul(RMul(praxeological, nash), chaotic), meristic),
                  !.is_vetoed = (zeros # {}),
                  !.veto_motor = IF zeros # {} THEN MotorOrder[first] ELSE None]

\* orchestrator.evaluate_gene(gene, context, intent)
OrchestratorEvaluateGene ==
    /\ EvaluationCount + Len(MotorOrder) <= MaxEvaluations
    /\ LET evals  == RunMotors(SituationFactors)
           result == CraftPerformanceResult(evals)
       IN  /\ evaluations' = evals
           /\ cp_result' = Some(result)
           /\ situation' =
                  Some([Get(situation) EXCEPT !.gene =
                      record_motor_scores(@, evals["Praxeological"].score,
                                          evals["Nash"].score,
                                          evals["Chaotic"].score,
                                          evals["Meristic"].score)])
           /\ motor_history' =
                  [m \in DOMAIN motor_history |->
                      IF m = "Orchestrator"
                      THEN Append(motor_history[m], result)
                      ELSE Append(motor_history[m], evals[m])]
           /\ call' = [op |-> "evaluate_gene"]
    /\ MotorFrame

NextMotor ==
    \/ \E m \in MotorNames : MotorEvaluate(m)
    \/ OrchestratorEvaluateGene

SpecMotor == InitMotor /\ [][NextMotor]_vars

-----------------------------------------------------------------------------
(* Properties of the motors (SpecMotor).                                    *)

\* C18: a motor's evaluate() is a pure function: the call leaves the gene,
\* the context, the intent and the motor instance (its evaluation_history
\* included) unchanged, and a call with the same inputs as the call before
\* it on the same motor returns the same evaluation.
C18_EvaluatePure ==
    [][call'.op = "evaluate" =>
          /\ situation' = situation
          /\ motor_history' = motor_history
          /\ (call.op = "evaluate" /\ call.motor = call'.motor)
                 => call'.evaluation = call.evaluation]_vars

\* the gene has a critical codon and no exception handler to offset it
CriticalUnhandled(g) ==
    /\ \E i \in 1..Len(g.codons) : g.codons[i].safety_level = "critical"
    /\ DOMAIN g.exception_handlers = {}

\* C19: the Chaotic motor vetoes exactly when a codon is critical with no
\* offsetting exception handler, or the sensitivity factor is below 0.1, or
\* the basin size is below 0.1.
C19_ChaoticVetoCondition ==
    (call.op = "evaluate" /\ call.motor = "Chaotic") =>
        (call.evaluation.is_veto <=>
            \/ CriticalUnhandled(Get(situation).gene)
            \/ RLt(SituationFactors.sensitivity_factor, VetoThreshold)
            \/ RLt(SituationFactors.basin_size, VetoThreshold))

\* a gene of one codon, critical, with no exception handlers and no
\* postconditions
SingleCriticalUnit(g) ==
    /\ Len(g.codons) = 1
    /\ g.codons[1].safety_level = "critical"
    /\ DOMAIN g.exception_handlers = {}
    /\ g.postconditions = <<>>

\* C20: for a gene of a single critical codon with no exception handlers and
\* no postconditions, evaluate_gene returns is_vetoed = True, veto_motor =
\* "Chaotic" and craft_performance = 0.0, whatever the context and intent.
C20_SingleCriticalVetoed ==
    (situation # Absent /\ cp_result # Absent
        /\ SingleCriticalUnit(Get(situation).gene)) =>
        /\ Get(cp_result).is_vetoed
        /\ Get(cp_result).veto_motor = "Chaotic"
        /\ Get(cp_result).craft_performance = Zero

\* evaluate_gene has returned for such a gene, under a context with several
\* agents and an intent sharing no word with the gene's purpose
C20_Witness ==
    /\ situation # Absent /\ cp_result # Absent
    /\ SingleCriticalUnit(Get(situation).gene)
    /\ "agents" \in DOMAIN Get(situation).context
    /\ Get(situation).intent = [purpose |-> <<"c">>]
    /\ Get(cp_result).is_vetoed

\* the fields of a gene that evaluate_gene does not write
GeneProper(g) ==
    [k \in DOMAIN g \ {"motor_scores", "craft_performance", "is_vetoed",
                       "veto_motor", "veto_reason"} |-> g[k]]

\* C21: after evaluate_gene returns, the gene carries the four motor scores,
\* the craft performance and the veto flag, motor and reason of the returned
\* result, and nothing else on the gene has changed.
C21_ScoresWrittenBack ==
    [][call'.op = "evaluate_gene" =>
          LET g == Get(situation').gene
              result == Get(cp_result')
          IN  /\ \A m \in MotorNames :
                     g.motor_scores[m] = result.evaluations[m].score
              /\ g.craft_performance = result.craft_performance
              /\ g.is_vetoed = result.is_vetoed
              /\ g.veto_motor = result.veto_motor
              /\ g.veto_reason = result.veto_reason
              /\ GeneProper(g) = GeneProper(Get(situation).gene)]_vars

-----------------------------------------------------------------------------
(* CognitiveSystem.process_intent: search the genome, evaluate every        *)
(* candidate through the orchestrator, select the best one not vetoed.      *)

\* F(v), with v evaluated once
Bind(v, F(_)) == CHOOSE r \in {F(x) : x \in {v}} : TRUE

\* orchestrator.evaluate_gene as process_intent uses it: the result
evaluate_gene(g, context, intent) ==
    Bind(RunMotors(MotorFactors(g, context, intent)),
         LAMBDA evals : CraftPerformanceResult(evals))

\* result.individual_scores
individual_scores(result) ==
    [m \in DOMAIN result.evaluations |-> result.evaluations[m].score]

\* `if not result.is_vetoed: if best_result is None or result.craft_performance
\* >= best_result.craft_performance`: a later candidate wins a tie
SelectBestLastTie(best, g, result) ==
    IF ~result.is_vetoed
       /\ (best = Absent
           \/ RLe(Get(best).result.craft_performance, result.craft_performance))
    THEN Some([gene |-> g, result |-> result])
    ELSE best

\* the selection step of the candidate loop
SelectBest(best, g, result) ==
    IF ~result.is_vetoed
       /\ (best = Absent
           \/ RLt(Get(best).result.craft_performance, result.craft_performance))
    THEN Some([gene |-> g, result |-> result])
    ELSE best

\* one pass of `for gene in candidates`
CandidateStep(acc, g, result) ==
    [candidates |->
         Append(acc.candidates,
                [gene_uid |-> g.uid, gene_name |-> g.name,
                 craft_performance |-> result.craft_performance,
                 is_vetoed |-> result.is_vetoed,
                 individual_scores |-> individual_scores(result)]),
     best |-> SelectBest(acc.best, g, result),
     results |-> Append(acc.results, result)]

\* `for gene in candidates`: the candidates entries, the best so far and the
\* results of evaluate_gene
RECURSIVE CandidateLoop(_, _, _, _)
CandidateLoop(candidates, n, context, intent_dict) ==
    IF n = 0 THEN [candidates |-> <<>>, best |-> Absent, results |-> <<>>]
    ELSE Bind(CandidateLoop(candidates, n - 1, context, intent_dict),
              LAMBDA acc :
                  Bind(evaluate_gene(candidates[n], context, intent_dict),
                       LAMBDA result : CandidateStep(acc, candidates[n], result)))

\* orchestrator.get_meta_motor_proposals
get_meta_motor_proposals(g) ==
    [i \in 1..2 |->
        [type |-> <<"variant", "hypothesis">>[i], base_gene |-> g.uid,
         status |-> "proposed", requires_validation |-> TRUE]]

\* the veto_details of a decision without selection: f"{gene_name}: vetoed"
veto_details(candidates) ==
    LET vetoed == SelectSeq(candidates, LAMBDA cand : cand.is_vetoed)
    IN  [i \in 1..Len(vetoed) |->
            [gene_name |-> vetoed[i].gene_name, text |-> "vetoed"]]

\* the decision dict process_intent returns (its id and timestamps left
\* out), from the candidates found and the outcome of the candidate loop
process_intent(intent, context, candidates, loop) ==
    LET start == [intent |-> intent, context |-> context,
                  candidates |-> <<>>, selected |-> Absent,
                  craft_performance |-> Zero, explanation |-> EmptyDict,
                  meta_motor_proposals |-> <<>>]
    IN  IF candidates = <<>>
        THEN [start EXCEPT !.explanation = [error |-> "No suitable genes found"]]
        ELSE IF loop.best # Absent
        THEN LET best_gene   == Get(loop.best).gene
                 best_result == Get(loop.best).result
             IN  [start EXCEPT
                     !.candidates = loop.candidates,
                     !.selected = Some([gene_uid |-> best_gene.uid,
                                        gene_name |-> best_gene.name,
                                        purpose |-> best_gene.purpose]),
                     !.craft_performance = best_result.craft_performance,
                     !.explanation =
                         [selection_reason |->
                              "Highest Craft Performance among non-vetoed candidates",
                          motor_analysis |-> individual_scores(best_result)],
                     !.meta_motor_proposals = get_meta_motor_proposals(best_gene)]
        ELSE [start EXCEPT
                 !.candidates = loop.candidates,
                 !.explanation = [error |-> "All candidates were vetoed",
                                  veto_details |-> veto_details(loop.candidates)]]

-----------------------------------------------------------------------------
(* SpecIntent: genes are inserted into the genome of a CognitiveSystem and  *)
(* intents are processed.  motor_history holds the evaluation_history of    *)
(* the motors and of the orchestrator and the system's decision_history.    *)

\* the most process_intent calls on one system
MaxDecisions == 1

IntentUids == {"gene-1", "gene-2", "gene-3"}

\* a well handled inspection, a bare inspection, a critical stop
IntentProfiles ==
    {[name |-> <<"a">>, purpose |-> <<"a", " ", "b">>, codons |-> <<InfoCodon>>,
      exception_handlers |-> [timeout |-> "retry", leak |-> "abort"]],
     [name |-> <<"a", " ", "b">>, purpose |-> <<"b">>, codons |-> <<InfoCodon>>,
      exception_handlers |-> EmptyDict],
     [name |-> <<"a">>, purpose |-> <<"a">>, codons |-> <<CriticalCodon>>,
      exception_handlers |-> EmptyDict]}

IntentGenes ==
    {WithFields([uid |-> uid, name |-> p.name, purpose |-> p.purpose,
                 codons |-> p.codons, metadata |-> EmptyDict,
                 activation_conditions |-> <<>>, postconditions |-> <<>>,
                 exception_handlers |-> p.exception_handlers,
                 evaluation_metrics |-> <<"uptime">>], u) :
        uid \in IntentUids, p \in IntentProfiles, u \in Unevaluated}

\* the intents: a word of some names and purposes, a word of none
IntentTexts == {<<"a">>, <<"b">>, <<"c">>}

SystemNames == MotorNames \cup {"Orchestrator", "CognitiveSystem"}

\* CognitiveSystem.__init__
InitIntent ==
    /\ InitGenome
    /\ situation = Absent
    /\ motor_history = [m \in SystemNames |-> <<>>]
    /\ translation_cache = EmptyDict
    /\ last_translation = EmptyDict /\ genomes = EmptyDict /\ heap = <<>>
    /\ translators = EmptyDict /\ invalidated = TRUE
    /\ call = NoCall
    /\ OtherInitStore

IntentFrame == UNCHANGED <<orchVars, execVars, gene, translation_cache,
                           last_translation, concVars, situation, aliasVars>>

IntentInsert ==
    /\ Len(evolution_history) < MaxEvents
    /\ \E g \in IntentGenes :
         LET after == insert_gene(TheStore, g, "default", "primary")
         IN  /\ genes' = after.genes
             /\ stems' = after.stems
             /\ chromosomes' = after.chromosomes
             /\ evolution_history' = after.evolution_history
    /\ call' = [op |-> "insert_gene"]
    /\ UNCHANGED motor_history
    /\ IntentFrame

\* system.process_intent(intent, context): the decision, the scores written
\* on every candidate, the histories of the motors, orchestrator and system
ProcessIntent ==
    /\ Len(motor_history["CognitiveSystem"]) < MaxDecisions
    /\ \E intent \in IntentTexts, context \in {EmptyDict} :
       \E candidates \in {find_genes_by_context(TheStore, intent)} :
       \E loop \in {CandidateLoop(candidates, Len(candidates), context,
                                  [purpose |-> intent])} :
       \E decision \in {process_intent(intent, context, candidates, loop)} :
         /\ genes' =
                [uid \in DOMAIN genes |->
                    IF \E i \in 1..Len(candidates) : candidates[i].uid = uid
                    THEN LET i == CHOOSE k \in 1..Len(candidates) :
                                      candidates[k].uid = uid
                             scores == loop.candidates[i].individual_scores
                         IN  record_motor_scores(genes[uid],
                                 scores["Praxeological"], scores["Nash"],
                                 scores["Chaotic"], scores["Meristic"])
                    ELSE genes[uid]]
         /\ motor_history' =
                [m \in SystemNames |->
                    IF m = "CognitiveSystem" THEN Append(motor_history[m], decision)
                    ELSE IF m = "Orchestrator" THEN motor_history[m] \o loop.results
                    ELSE motor_history[m] \o
                         [i \in 1..Len(loop.results) |-> loop.results[i].evaluations[m]]]
         /\ call' = [op |-> "process_intent", intent |-> intent,
                     found |-> candidates, decision |-> decision]
    /\ UNCHANGED <<stems, chromosomes, evolution_history>>
    /\ IntentFrame

NextIntent == IntentInsert \/ ProcessIntent

SpecIntent == InitIntent /\ [][NextIntent]_vars

\* C22: for every request process_intent returns a decision that is either
\* a selected gene together with its compiled plan, or 'no candidates
\* found', or 'all candidates vetoed' listing for each vetoed candidate the
\* vetoing motor and its reason.
C22_StructuredDecision ==
    call.op = "process_intent" =>
        LET d == call.decision
        IN  \/ d.selected # Absent /\ "plan" \in DOMAIN d
            \/ /\ d.selected = Absent /\ d.candidates = <<>>
               /\ "error" \in DOMAIN d.explanation
            \/ /\ d.selected = Absent /\ d.candidates # <<>>
               /\ "veto_details" \in DOMAIN d.explanation
               /\ Len(d.explanation.veto_details) = Len(d.candidates)
               /\ \A i \in 1..Len(d.explanation.veto_details) :
                      {"veto_motor", "veto_reason"}
                          \subseteq DOMAIN d.explanation.veto_details[i]

\* the candidates of a decision that are not vetoed
NotVetoed(d) == {i \in 1..Len(d.candidates) : ~d.candidates[i].is_vetoed}

\* C24: process_intent selects a gene iff some candidate of the search is
\* not vetoed; the selected gene is not vetoed and has the greatest craft
\* performance among the candidates not vetoed, the first in search order
\* among equals; the decision's craft_performance is the selected one's.
C24_BestNotVetoed ==
    call.op = "process_intent" =>
        LET d  == call.decision
            ok == NotVetoed(d)
        IN  /\ Len(d.candidates) = Len(call.found)
            /\ \A i \in 1..Len(call.found) :
                   d.candidates[i].gene_uid = call.found[i].uid
            /\ (d.selected # Absent) <=> (ok # {})
            /\ ok # {} =>
                   \E i \in ok :
                       /\ Get(d.selected).gene_uid = d.candidates[i].gene_uid
                       /\ d.craft_performance = d.candidates[i].craft_performance
                       /\ \A j \in ok :
                              /\ RLe(d.candidates[j].craft_performance,
                                     d.candidates[i].craft_performance)
                              /\ (d.candidates[j].craft_performance
                                      = d.candidates[i].craft_performance) => i <= j

\* a decision among two candidates of equal craft performance
C24_Witness ==
    /\ call.op = "process_intent"
    /\ call.decision.selected # Absent
    /\ \E i, j \in NotVetoed(call.decision) :
           /\ i < j
           /\ call.decision.candidates[i].craft_performance
                  = call.decision.candidates[j].craft_performance
    /\ \E k \in 1..Len(call.decision.candidates) :
           call.decision.candidates[k].is_vetoed

-----------------------------------------------------------------------------
(* Ranges of the scores (SpecMotor).                                        *)

InUnitInterval(x) == RLe(Zero, x) /\ RLe(x, One)

\* C23: every motor's score is in [0,1] for every gene, context and intent,
\* and so is every craft performance the orchestrator returns.
C23_ScoresInUnitInterval ==
    /\ call.op = "evaluate" => InUnitInterval(call.evaluation.score)
    /\ cp_result # Absent =>
           /\ InUnitInterval(Get(cp_result).craft_performance)
           /\ \A m \in MotorNames :
                  InUnitInterval(Get(cp_result).evaluations[m].score)

\* evaluate_gene has returned a craft performance above 0 with the Nash
\* score at 1.0: two exception handlers for a single agent
C23_Witness ==
    /\ cp_result # Absent
    /\ ~Get(cp_result).is_vetoed
    /\ Get(cp_result).craft_performance # Zero
    /\ Get(cp_result).evaluations["Nash"].score = One
    /\ Cardinality(DOMAIN Get(situation).gene.exception_handlers) = 2

-----------------------------------------------------------------------------
(* SpecAlias: a genome and the genome rebuilt from its to_dict().  Python    *)
(* lists and dicts are objects: heap holds them, a reference is an index in  *)
(* heap, and a field that holds a list or dict holds its reference.          *)

\* a new object, referred to by Len(h) + 1
Alloc(h, obj) == Append(h, obj)

RegistryKinds == {"entity", "action", "state"}

\* the codon add_codon is given
AliasCodon == InfoCodon

\* OperationalGene(uid=...): a gene with its own codons list and metadata dict
NewGene(h, uid) ==
    LET h1 == Alloc(h, [executor |-> "operator"])
        h2 == Alloc(h1, <<>>)
    IN  Alloc(h2, [uid |-> uid, status |-> "draft",
                   codons |-> Len(h2), metadata |-> Len(h1)])

\* DigitalGenome.__init__: the genome owns a new history list and registries
NewGenome ==
    [heap |-> <<<<>>, EmptyDict, EmptyDict, EmptyDict>>,
     genome |-> [genes |-> EmptyDict, stems |-> EmptyDict,
                 chromosomes |-> EmptyDict, evolution_history |-> 1,
                 registries |-> [entity |-> 2, action |-> 3, state |-> 4]]]

\* self.index[key].append(uid) on a defaultdict(list)
IndexAppend(h, index, key, uid) ==
    IF key \in DOMAIN index
    THEN [heap |-> [h EXCEPT ![index[key]] = Append(@, uid)], index |-> index]
    ELSE [heap |-> Alloc(h, <<uid>>), index |-> DictSet(index, key, Len(h) + 1)]

\* genome.insert_gene(gene, stem, chromosome), gene being the object gref
AliasInsertGene(h, G, gref, stem, chromosome) ==
    LET uid == h[gref].uid
        s == IndexAppend(h, G.stems, stem, uid)
        c == IndexAppend(s.heap, G.chromosomes, chromosome, uid)
        event == [event_type |-> "insertion", gene_uid |-> uid,
                  stem |-> stem, chromosome |-> chromosome]
    IN  [heap |-> [c.heap EXCEPT ![G.evolution_history] = Append(@, event)],
         genome |-> [G EXCEPT !.genes = DictSet(@, uid, gref),
                              !.stems = s.index,
                              !.chromosomes = c.index]]

\* gene.add_codon(codon)
AliasAddCodon(h, gref, codon) ==
    [h EXCEPT ![h[gref].codons] = Append(@, codon)]

\* gene.deprecate(reason)
AliasDeprecate(h, gref, reason) ==
    [h EXCEPT ![gref].status = "deprecated",
              ![h[gref].metadata] = DictSet(@, "deprecation_reason", reason)]

\* genome.register_entity / register_action / register_state
AliasRegister(h, G, kind, id) ==
    [h EXCEPT ![G.registries[kind]] = DictSet(@, id, [name |-> id])]

\* OperationalGene.to_dict: the codons are serialized one by one, every other
\* container is handed out as it is
AliasGeneToDict(h, gref) ==
    [uid |-> h[gref].uid, status |-> h[gref].status,
     codons |-> h[h[gref].codons], metadata |-> h[gref].metadata]

\* DigitalGenome.to_dict
AliasToDict(h, G) ==
    [genes |-> [uid \in DOMAIN G.genes |-> AliasGeneToDict(h, G.genes[uid])],
     stems |-> G.stems,
     chromosomes |-> G.chromosomes,
     evolution_history |-> G.evolution_history,
     registries |-> G.registries]

\* OperationalGene.from_dict: a new gene with a new codons list; metadata is
\* the dict of the data
AliasGeneFromDict(h, data) ==
    LET h1 == Alloc(h, data.codons)
    IN  Alloc(h1, [uid |-> data.uid, status |-> data.status,
                   codons |-> Len(h1), metadata |-> data.metadata])

\* for gene_data in data["genes"].values(): genome.genes[gene.uid] = gene
RECURSIVE AliasGenesFromDict(_, _, _, _)
AliasGenesFromDict(h, table, data, todo) ==
    IF todo = {} THEN [heap |-> h, genes |-> table]
    ELSE LET uid == CHOOSE u \in todo : TRUE
             h1 == AliasGeneFromDict(h, data[uid])
         IN  AliasGenesFromDict(h1, DictSet(table, uid, Len(h1)), data,
                                todo \ {uid})

\* DigitalGenome.from_dict
AliasFromDict(h, data) ==
    LET built == AliasGenesFromDict(h, EmptyDict, data.genes, DOMAIN data.genes)
    IN  [heap |-> built.heap,
         genome |-> [genes |-> built.genes,
                     stems |-> data.stems,
                     chromosomes |-> data.chromosomes,
                     evolution_history |-> data.evolution_history,
                     registries |-> data.registries]]

\* what a genome holds, read through its references
GenomeView(h, G) ==
    [genes |-> [uid \in DOMAIN G.genes |->
                   [status |-> h[G.genes[uid]].status,
                    codons |-> h[h[G.genes[uid]].codons],
                    metadata |-> h[h[G.genes[uid]].metadata]]],
     stems |-> [k \in DOMAIN G.stems |-> h[G.stems[k]]],
     chromosomes |-> [k \in DOMAIN G.chromosomes |-> h[G.chromosomes[k]]],
     evolution_history |-> h[G.evolution_history],
     registries |-> [k \in RegistryKinds |-> h[G.registries[k]]]]

AliasFrame == UNCHANGED <<orchVars, execVars, gene, storeVars, translation_cache,
                          last_translation, concVars, motorVars>>

InitAlias ==
    /\ heap = NewGenome.heap
    /\ genomes = [s \in {"g"} |-> NewGenome.genome]
    /\ factors = EmptyDict /\ evaluations = EmptyDict
    /\ cp_result = Absent /\ cp_calc = Absent
    /\ plan = Absent /\ exec_result = Absent
    /\ gene = Absent
    /\ InitGenome
    /\ translation_cache = EmptyDict /\ last_translation = EmptyDict
    /\ translators = EmptyDict /\ invalidated = TRUE
    /\ situation = Absent /\ motor_history = EmptyDict
    /\ call = NoCall

\* h = DigitalGenome.from_dict(g.to_dict())
AliasRoundTrip ==
    /\ DOMAIN genomes = {"g"}
    /\ \E r \in {AliasFromDict(heap, AliasToDict(heap, genomes["g"]))} :
         /\ heap' = r.heap
         /\ genomes' = [s \in {"g", "h"} |-> IF s = "g" THEN genomes["g"] ELSE r.genome]
    /\ call' = [op |-> "from_dict", store |-> "h"]
    /\ AliasFrame

AliasInsert ==
    /\ \E s \in DOMAIN genomes, uid \in GeneUids, stem \in StemNames,
          chromosome \in {"primary"} :
         /\ Len(heap[genomes[s].evolution_history]) < MaxInserts
         /\ \E h1 \in {NewGene(heap, uid)} :
              \E r \in {AliasInsertGene(h1, genomes[s], Len(h1), stem, chromosome)} :
                /\ heap' = r.heap
                /\ genomes' = [genomes EXCEPT ![s] = r.genome]
         /\ call' = [op |-> "insert_gene", store |-> s]
    /\ AliasFrame

\* a gene without codons is given its first one
AliasAdd ==
    /\ \E s \in DOMAIN genomes :
         \E uid \in DOMAIN genomes[s].genes :
           /\ heap[heap[genomes[s].genes[uid]].codons] = <<>>
           /\ heap' = AliasAddCodon(heap, genomes[s].genes[uid], AliasCodon)
           /\ call' = [op |-> "add_codon", store |-> s]
    /\ UNCHANGED genomes
    /\ AliasFrame

AliasDeprecateGene ==
    /\ \E s \in DOMAIN genomes :
         \E uid \in DOMAIN genomes[s].genes :
           /\ heap' = AliasDeprecate(heap, genomes[s].genes[uid], "obsolete")
           /\ call' = [op |-> "deprecate", store |-> s]
    /\ UNCHANGED genomes
    /\ AliasFrame

AliasRegisterEntry ==
    /\ \E s \in DOMAIN genomes, kind \in RegistryKinds :
         /\ heap' = AliasRegister(heap, genomes[s], kind, "pump-401")
         /\ call' = [op |-> "register", store |-> s]
    /\ UNCHANGED genomes
    /\ AliasFrame

NextAlias ==
    \/ AliasRoundTrip
    \/ AliasInsert
    \/ AliasAdd
    \/ AliasDeprecateGene
    \/ AliasRegisterEntry

SpecAlias == InitAlias /\ [][NextAlias]_vars

AliasOps == {"insert_gene", "add_codon", "deprecate", "register"}

\* C25: a store rebuilt by DigitalGenome.from_dict(g.to_dict()) shares no
\* mutable state with g: an insert_gene, register_*, add_codon or deprecate
\* applied to one of the two stores (or its templates) leaves the other
\* store's template table, stem and chromosome indices, event log,
\* registries and template metadata unchanged.
C25_NoSharedState ==
    [][\A s \in DOMAIN genomes :
          (call'.op \in AliasOps /\ call'.store # s) =>
              GenomeView(heap', genomes'[s]) = GenomeView(heap, genomes[s])]_vars

-----------------------------------------------------------------------------
(* The secondary indices of the genome after insert_gene calls.             *)

\* [self.genes[uid] for uid in gene_uids if uid in self.genes]
RECURSIVE GenesOf(_, _)
GenesOf(table, gene_uids) ==
    IF gene_uids = <<>> THEN <<>>
    ELSE IF Head(gene_uids) \in DOMAIN table
         THEN <<table[Head(gene_uids)]>> \o GenesOf(table, Tail(gene_uids))
         ELSE GenesOf(table, Tail(gene_uids))

\* DigitalGenome.find_genes_by_stem
find_genes_by_stem(store, stem) ==
    GenesOf(store.genes, IF stem \in DOMAIN store.stems THEN store.stems[stem] ELSE <<>>)

\* DigitalGenome.find_genes_by_chromosome
find_genes_by_chromosome(store, chromosome) ==
    GenesOf(store.genes, IF chromosome \in DOMAIN store.chromosomes
                         THEN store.chromosomes[chromosome] ELSE <<>>)

\* how often uid is listed in the index, over all its keys
RECURSIVE Listings(_, _, _)
Listings(index, keys, uid) ==
    IF keys = {} THEN 0
    ELSE LET k == CHOOSE x \in keys : TRUE
         IN  Cardinality({i \in DOMAIN index[k] : index[k][i] = uid})
                 + Listings(index, keys \ {k}, uid)

NoRepeats(s) == \A i, j \in DOMAIN s : s[i].uid = s[j].uid => i = j

\* C26: after any sequence of insert_gene calls, every identifier listed in
\* the stem or chromosome index is a key of the template table, each template
\* of the table is listed exactly once in the stem index and exactly once in
\* the chromosome index, and find_genes_by_stem / find_genes_by_chromosome
\* never return the same template twice.
C26_IndicesConsistent ==
    /\ \A k \in DOMAIN stems : \A i \in DOMAIN stems[k] : stems[k][i] \in DOMAIN genes
    /\ \A k \in DOMAIN chromosomes :
           \A i \in DOMAIN chromosomes[k] : chromosomes[k][i] \in DOMAIN genes
    /\ \A uid \in DOMAIN genes :
           /\ Listings(stems, DOMAIN stems, uid) = 1
           /\ Listings(chromosomes, DOMAIN chromosomes, uid) = 1
    /\ \A k \in StemNames : NoRepeats(find_genes_by_stem(TheStore, k))
    /\ \A k \in ChromosomeNames : NoRepeats(find_genes_by_chromosome(TheStore, k))

-----------------------------------------------------------------------------
(* The counters and the step results of execute_plan.                       *)

\* C27: in every result returned by execute_plan, steps_executed =
\* steps_successful + steps_failed = the length of step_results, which is at
\* most plan.total_steps, and step_results lists the executed steps in plan
\* order with no gaps, for every pattern of per-step outcomes.
C27_CountersAgree ==
    exec_result # Absent =>
        LET r == Get(exec_result)
        IN  /\ r.steps_executed = r.steps_successful + r.steps_failed
            /\ r.steps_executed = Len(r.step_results)
            /\ Len(r.step_results) <= Get(plan).total_steps
            /\ \A i \in 1..Len(r.step_results) :
                   r.step_results[i].order = Get(plan).steps[i].order

\* C27's case: a two-step plan whose first step was aborted on its
\* preconditions and whose second step succeeded.
C27_Witness ==
    /\ call.op = "execute_plan"
    /\ Get(plan).total_steps = 2
    /\ Get(exec_result).steps_failed = 1
    /\ Get(exec_result).steps_successful = 1
    /\ Get(exec_result).step_results[1].status = "aborted"
    /\ Get(exec_result).step_results[2].status = "success"

\* C28: in every step result returned by execute_plan, error is null iff the
\* step's status is success, also when the same plan object is executed
\* several times and the collaborators give different outcomes from one
\* execution to the next.
C28_ErrorIffNotSuccess ==
    exec_result # Absent =>
        \A i \in 1..Len(Get(exec_result).step_results) :
            (Get(exec_result).step_results[i].error = None)
                <=> (Get(exec_result).step_results[i].status = "success")

-----------------------------------------------------------------------------
(* Vetoes: their source and reason (SpecMotor).                              *)

\* a zero score comes with the veto flag and a reason
ZeroIsVeto(evaluation) ==
    evaluation.score = Zero => evaluation.is_veto /\ evaluation.veto_reason # None

\* C29: whenever evaluate_gene returns is_vetoed = true, veto_motor names one
\* of the four evaluators and veto_reason is a reason string, not None; no
\* evaluator returns a score of exactly zero without also setting is_veto
\* and a veto_reason.
C29_VetoNamedWithReason ==
    /\ call.op = "evaluate" => ZeroIsVeto(call.evaluation)
    /\ cp_result # Absent =>
           /\ \A m \in MotorNames : ZeroIsVeto(Get(cp_result).evaluations[m])
           /\ Get(cp_result).is_vetoed =>
                  /\ Get(cp_result).veto_motor \in MotorNames
                  /\ Get(cp_result).veto_reason # None

\* C29's case: evaluate_gene has vetoed a gene without codons, whose logical
\* coherence is 0.0, and names the Praxeological motor.
C29_Witness ==
    /\ call.op = "evaluate_gene"
    /\ Get(situation).gene.codons = <<>>
    /\ Get(cp_result).is_vetoed
    /\ Get(cp_result).veto_motor = "Praxeological"
    /\ Get(cp_result).veto_reason = "Action cannot logically achieve its goal"

\* C30: for every gene, context and intent, the veto source reported by
\* evaluate_gene is none, the Praxeological motor or the Chaotic motor: the
\* Nash motor's stability and proximity factors and the Meristic motor's
\* pattern-universality factor never fall below 0.1, so these two motors
\* never veto.
C30_NashAndMeristicNeverVeto ==
    /\ RLe(VetoThreshold, SituationFactors.stability)
    /\ RLe(VetoThreshold, SituationFactors.equilibrium_proximity)
    /\ RLe(VetoThreshold, SituationFactors.pattern_universality)
    /\ (call.op = "evaluate" /\ call.motor \in {"Nash", "Meristic"}) =>
           ~is_absolute_veto(call.evaluation)
    /\ cp_result # Absent =>
           /\ Get(cp_result).veto_motor \in {None, "Praxeological", "Chaotic"}
           /\ ~is_absolute_veto(Get(cp_result).evaluations["Nash"])
           /\ ~is_absolute_veto(Get(cp_result).evaluations["Meristic"])

\* C30's case: with several agents in the context and a gene that shows no
\* pattern, evaluate_gene reports the Chaotic motor as the veto source and
\* the Nash and Meristic scores are above zero.
C30_Witness ==
    /\ call.op = "evaluate_gene"
    /\ SituationFactors.n_agents > 1
    /\ detect_patterns(Get(situation).gene) = <<>>
    /\ Get(cp_result).veto_motor = "Chaotic"
    /\ Get(cp_result).evaluations["Nash"].score # Zero
    /\ Get(cp_result).evaluations["Meristic"].score # Zero

=============================================================================
